---- MODULE Spec2Model ----
(***************************************************************************)
(* Model of ShoppingService (shopping.service.ts): the import ledger, the  *)
(* dynamically created tables, the batch loader, the single-row mutations  *)
(* and the value sanitizer.                                                *)
(*                                                                         *)
(* Text is a sequence of one-character strings.  A number is an integer    *)
(* count of hundredths (200.5 is 20050).  A JavaScript value is a record   *)
(* [k, s, n]: k is its kind, s its text, n its number.                      *)
(*                                                                         *)
(* The store is PostgreSQL: a statement that fails inside a transaction    *)
(* aborts the transaction, and COMMIT of an aborted transaction rolls it   *)
(* back without an error.                                                  *)
(***************************************************************************)
EXTENDS Integers, Sequences, FiniteSets, TLC

\* ------------------------------------------------------------------------
\* Characters and text
\* ------------------------------------------------------------------------
Digitos == <<"0", "1", "2", "3", "4", "5", "6", "7", "8", "9">>

Minusculas ==
  <<"a", "b", "c", "d", "e", "f", "g", "h", "i", "j", "k", "l", "m",
    "n", "o", "p", "q", "r", "s", "t", "u", "v", "w", "x", "y", "z">>

Mayusculas ==
  <<"A", "B", "C", "D", "E", "F", "G", "H", "I", "J", "K", "L", "M",
    "N", "O", "P", "Q", "R", "S", "T", "U", "V", "W", "X", "Y", "Z">>

Rango(f) == {f[i] : i \in DOMAIN f}

EsDigito(c) == c \in Rango(Digitos)

EsLetra(c) == c \in Rango(Minusculas) \cup Rango(Mayusculas)

EsEspacio(c) == c \in {" ", "\t"}

ValorDigito(c) == (CHOOSE i \in DOMAIN Digitos : Digitos[i] = c) - 1

\* String.prototype.toLowerCase, one character
MinusculaDe(c) ==
  IF c \in Rango(Mayusculas)
    THEN Minusculas[CHOOSE i \in DOMAIN Mayusculas : Mayusculas[i] = c]
    ELSE c

toLowerCase(s) == [i \in DOMAIN s |-> MinusculaDe(s[i])]

\* s.includes(c) for a one-character c
Incluye(s, c) == \E i \in DOMAIN s : s[i] = c

\* Numbers are counted in hundredths
Escala == 10 * 10

\* valor.replace(/[^\d.-]/g, '')
EsNumerico(c) == EsDigito(c) \/ c = "." \/ c = "-"

LimpiarNumero(s) == SelectSeq(s, EsNumerico)

\* valor.replace(/,/g, '.')
ComaAPunto(s) == [i \in DOMAIN s |-> IF s[i] = "," THEN "." ELSE s[i]]

\* number of consecutive digits of s starting at position p
RECURSIVE CuentaDigitos(_, _)
CuentaDigitos(s, p) ==
  IF p <= Len(s) /\ EsDigito(s[p]) THEN 1 + CuentaDigitos(s, p + 1) ELSE 0

\* value of the c digits of s starting at position p
RECURSIVE ValorDigitos(_, _, _)
ValorDigitos(s, p, c) ==
  IF c = 0 THEN 0
  ELSE 10 * ValorDigitos(s, p, c - 1) + ValorDigito(s[p + c - 1])

\* hundredths denoted by the fraction digits of s starting at p (c of them)
Centesimas(s, p, c) ==
  IF c = 0 THEN 0
  ELSE IF c = 1 THEN 10 * ValorDigito(s[p])
  ELSE 10 * ValorDigito(s[p]) + ValorDigito(s[p + 1])

\* parseFloat(s): the longest prefix [-]digits[.digits]; <<FALSE, 0>> is NaN
parseFloat(s) ==
  LET neg == Len(s) >= 1 /\ s[1] = "-"
      p   == IF neg THEN 2 ELSE 1
      ne  == CuentaDigitos(s, p)
      pt  == p + ne <= Len(s) /\ s[p + ne] = "."
      nf  == IF pt THEN CuentaDigitos(s, p + ne + 1) ELSE 0
      mag == Escala * ValorDigitos(s, p, ne) + Centesimas(s, p + ne + 1, nf)
  IN  IF ne + nf = 0 THEN <<FALSE, 0>>
      ELSE <<TRUE, IF neg THEN 0 - mag ELSE mag>>

\* !isNaN(Number(s)) for a text of digits, '.' and '-': the whole text is a
\* number, and the empty text is 0
EsNumber(s) ==
  LET neg == Len(s) >= 1 /\ s[1] = "-"
      p   == IF neg THEN 2 ELSE 1
      ne  == CuentaDigitos(s, p)
      pt  == p + ne <= Len(s) /\ s[p + ne] = "."
      nf  == IF pt THEN CuentaDigitos(s, p + ne + 1) ELSE 0
      fin == p + ne + (IF pt THEN 1 + nf ELSE 0)
  IN  s = <<>> \/ (ne + nf >= 1 /\ fin = Len(s) + 1)

\* Math.round(n): nearest integer, halves towards +Infinity
MathRound(n) ==
  LET m == n + (Escala \div 2)
      r == m % Escala
  IN  m - r

\* Math.floor(v) !== v
TieneDecimales(n) == n % Escala # 0

\* decimal digits of a natural number
RECURSIVE TextoNatural(_)
TextoNatural(n) ==
  IF n < 10 THEN <<Digitos[n + 1]>>
  ELSE TextoNatural(n \div 10) \o <<Digitos[(n % 10) + 1]>>

\* two-digit, zero-padded
DosDigitos(n) == <<Digitos[(n \div 10) + 1], Digitos[(n % 10) + 1]>>

\* String(n) for a number
TextoNumero(n) ==
  LET a == IF n < 0 THEN 0 - n ELSE n
      e == a \div Escala
      f == a % Escala
      frac == IF f = 0 THEN <<>>
              ELSE IF f % 10 = 0 THEN <<".", Digitos[(f \div 10) + 1]>>
              ELSE <<".">> \o DosDigitos(f)
  IN  (IF n < 0 THEN <<"-">> ELSE <<>>) \o TextoNatural(e) \o frac

\* ------------------------------------------------------------------------
\* JavaScript values
\* ------------------------------------------------------------------------
Nulo == [k |-> "null", s |-> <<>>, n |-> 0]

Str(s) == [k |-> "string", s |-> s, n |-> 0]

Num(n) == [k |-> "number", s |-> <<>>, n |-> n]

Bool(b) == [k |-> "boolean", s |-> <<>>, n |-> IF b THEN 1 ELSE 0]

\* a Date at midnight of year*10000 + month*100 + day
Fecha(n) == [k |-> "Date", s |-> <<>>, n |-> n]

\* a plain object or array, carried as its JSON text
Obj(json) == [k |-> "object", s |-> json, n |-> 0]

EsNulo(v) == v.k = "null"

\* typeof v
typeof(v) == IF v.k \in {"Date", "object"} THEN "object" ELSE v.k

DiasMes(a, m) ==
  IF m = 2 THEN (IF a % 4 = 0 /\ (a % 100 # 0 \/ a % 400 = 0) THEN 29 ELSE 28)
  ELSE IF m \in {4, 6, 9, 11} THEN 30 ELSE 31

\* new Date(s) for a text in date-time string format YYYY-MM-DD:
\* <<TRUE, code>>, or <<FALSE, 0>> when getTime() is NaN
NuevaFecha(s) ==
  IF /\ Len(s) = 10
     /\ s[5] = "-" /\ s[8] = "-"
     /\ \A i \in {1, 2, 3, 4, 6, 7, 9, 10} : EsDigito(s[i])
  THEN LET a == ValorDigitos(s, 1, 4)
           m == ValorDigitos(s, 6, 2)
           d == ValorDigitos(s, 9, 2)
       IN  IF m \in 1..12 /\ d >= 1 /\ d <= DiasMes(a, m)
             THEN <<TRUE, a * 10000 + m * 100 + d>>
             ELSE <<FALSE, 0>>
  ELSE <<FALSE, 0>>

\* Date.prototype.toISOString()
TextoISO(n) ==
  TextoNatural(n \div 10000) \o <<"-">> \o DosDigitos((n \div 100) % 100)
    \o <<"-">> \o DosDigitos(n % 100)
    \o <<"T", "0", "0", ":", "0", "0", ":", "0", "0", ".", "0", "0", "0", "Z">>

\* an object JSON.stringify cannot serialize (a circular structure)
Ciclico == [k |-> "object", s |-> <<>>, n |-> 1]

\* String(v) for a value that is not a Date
TextoDe(v) ==
  CASE v.k = "string"  -> v.s
    [] v.k = "number"  -> TextoNumero(v.n)
    [] v.k = "boolean" -> IF v.n = 1 THEN <<"t", "r", "u", "e">>
                          ELSE <<"f", "a", "l", "s", "e">>
    [] OTHER           -> <<"[", "o", "b", "j", "e", "c", "t", " ",
                            "O", "b", "j", "e", "c", "t", "]">>

\* JSON.stringify(v) for an object: <<TRUE, text>>, or <<FALSE, <<>>>> when
\* it throws; a Date is its quoted ISO text
JSONstringify(v) ==
  IF v.k = "Date" THEN <<TRUE, <<"\"">> \o TextoISO(v.n) \o <<"\"">> >>
  ELSE IF v = Ciclico THEN <<FALSE, <<>> >>
  ELSE <<TRUE, v.s>>

Verdaderos ==
  {<<"t", "r", "u", "e">>, <<"y", "e", "s">>, <<"s", "i">>, <<"s">>, <<"y">>,
   <<"1">>}

Falsos == {<<"f", "a", "l", "s", "e">>, <<"n", "o">>, <<"n">>, <<"0">>}

\* ------------------------------------------------------------------------
\* Value sanitizer
\* ------------------------------------------------------------------------
\* case 'date', 'timestamp' with the Date branch left out
sanitizarFechaSinDate(valor) ==
  IF typeof(valor) = "string" /\ NuevaFecha(valor.s)[1]
    THEN Fecha(NuevaFecha(valor.s)[2])
  ELSE Nulo

\* case 'date', 'timestamp'
sanitizarFecha(valor) ==
  IF typeof(valor) = "string" /\ NuevaFecha(valor.s)[1]
    THEN Fecha(NuevaFecha(valor.s)[2])
  ELSE IF valor.k = "Date" THEN valor
  ELSE Nulo

\* case 'int'
sanitizarEntero(valor) ==
  IF typeof(valor) = "string"
    THEN LET num == parseFloat(LimpiarNumero(valor.s))
         IN  IF num[1] THEN Num(MathRound(num[2])) ELSE Nulo
  ELSE IF typeof(valor) = "number" THEN Num(MathRound(valor.n))
  ELSE Nulo

\* case 'decimal'
sanitizarDecimal(valor) ==
  IF typeof(valor) = "string"
    THEN LET num == parseFloat(LimpiarNumero(ComaAPunto(valor.s)))
         IN  IF num[1] THEN Num(num[2]) ELSE Nulo
  ELSE IF typeof(valor) = "number" THEN valor
  ELSE Nulo

\* case 'boolean'
sanitizarBooleano(valor) ==
  IF typeof(valor) = "string"
    THEN IF toLowerCase(valor.s) \in Verdaderos THEN Bool(TRUE)
         ELSE IF toLowerCase(valor.s) \in Falsos THEN Bool(FALSE)
         ELSE Nulo
  ELSE IF typeof(valor) = "number" THEN Bool(valor.n # 0)
  ELSE IF typeof(valor) = "boolean" THEN valor
  ELSE Nulo

\* default: the try/catch around JSON.stringify falls back to String
sanitizarTexto(valor) ==
  IF typeof(valor) = "object"
    THEN IF JSONstringify(valor)[1] THEN Str(JSONstringify(valor)[2])
         ELSE Str(TextoDe(valor))
  ELSE Str(TextoDe(valor))

sanitizarValorSegunTipo(valor, tipo) ==
  IF EsNulo(valor) THEN Nulo
  ELSE CASE tipo \in {"date", "timestamp"} -> sanitizarFecha(valor)
         [] tipo = "int"                   -> sanitizarEntero(valor)
         [] tipo = "decimal"               -> sanitizarDecimal(valor)
         [] tipo = "boolean"               -> sanitizarBooleano(valor)
         [] OTHER                          -> sanitizarTexto(valor)

\* ------------------------------------------------------------------------
\* Records: a JavaScript object is the sequence of its entries [c, v] in
\* insertion order, keys unique; a missing key reads as undefined (Nulo)
\* ------------------------------------------------------------------------
Claves(reg) == [i \in DOMAIN reg |-> reg[i].c]

TieneClave(reg, col) == \E i \in DOMAIN reg : reg[i].c = col

\* registro[col]
Leer(reg, col) ==
  IF TieneClave(reg, col)
    THEN reg[CHOOSE i \in DOMAIN reg : reg[i].c = col].v
    ELSE Nulo

\* registro[col] = v
Asignar(reg, col, v) ==
  IF TieneClave(reg, col)
    THEN [i \in DOMAIN reg |-> IF reg[i].c = col THEN [c |-> col, v |-> v]
                               ELSE reg[i]]
    ELSE Append(reg, [c |-> col, v |-> v])

\* the elements of a sequence, each once, in order of first appearance
RECURSIVE SinRepetidos(_)
SinRepetidos(s) ==
  IF s = <<>> THEN <<>>
  ELSE LET r == SinRepetidos(SubSeq(s, 1, Len(s) - 1))
       IN  IF s[Len(s)] \in Rango(r) THEN r ELSE Append(r, s[Len(s)])

RECURSIVE Aplanar(_)
Aplanar(ss) == IF ss = <<>> THEN <<>> ELSE Head(ss) \o Aplanar(Tail(ss))

\* ------------------------------------------------------------------------
\* Column name normalizer
\* ------------------------------------------------------------------------
\* /[^a-zA-Z0-9_]/ on one character
FueraDeIdentificador(c) == ~(EsLetra(c) \/ EsDigito(c) \/ c = "_")

\* columna.replace(/[^a-zA-Z0-9_]/g, '_').toLowerCase()
nombreNormalizado(columna) ==
  toLowerCase([i \in DOMAIN columna |->
                 IF FueraDeIdentificador(columna[i]) THEN "_" ELSE columna[i]])

RECURSIVE RenombrarRegistro(_, _, _)
RenombrarRegistro(reg, columnas, n) ==
  IF n = 0 THEN <<>>
  ELSE LET e == reg[n]
           \* mapaNombres[nombreOriginal] || nombreOriginal
           nuevo == IF e.c \in Rango(columnas) /\ nombreNormalizado(e.c) # <<>>
                      THEN nombreNormalizado(e.c) ELSE e.c
       IN  Asignar(RenombrarRegistro(reg, columnas, n - 1), nuevo, e.v)

normalizarNombresColumnas(datos) ==
  IF datos = <<>> THEN datos
  ELSE LET columnas == Claves(datos[1])
       IN  IF ~(\E i \in DOMAIN columnas :
                  \E j \in DOMAIN columnas[i] :
                    FueraDeIdentificador(columnas[i][j]))
             THEN datos
             ELSE [r \in DOMAIN datos |->
                     RenombrarRegistro(datos[r], columnas, Len(datos[r]))]

\* ------------------------------------------------------------------------
\* Type inference
\* ------------------------------------------------------------------------
\* /[a-zA-Z]/.test(valor) || /[^0-9\.,\-\s]/.test(valor)
EsCaracterNoNumerico(c) ==
  EsLetra(c) \/ ~(EsDigito(c) \/ c \in {".", ",", "-"} \/ EsEspacio(c))

NoNulo(v) == ~EsNulo(v)

\* the type of one column from its first non-null value alone
TipoPorPrimero(valoresNoNulos) ==
  IF valoresNoNulos = <<>> THEN "text"
  ELSE CASE valoresNoNulos[1].k = "number" ->
              IF TieneDecimales(valoresNoNulos[1].n) THEN "decimal" ELSE "int"
         [] valoresNoNulos[1].k = "Date" -> "date"
         [] valoresNoNulos[1].k = "boolean" -> "boolean"
         [] OTHER -> "text"

\* the type of one column from its non-null values, in record order
TipoDeColumna(valoresNoNulos) ==
  IF valoresNoNulos = <<>> THEN "text"
  ELSE LET v == valoresNoNulos
           todos(k) == \A i \in DOMAIN v : v[i].k = k
       IN  CASE v[1].k = "number" ->
                  IF ~todos("number") THEN "text"
                  ELSE IF \E i \in DOMAIN v : TieneDecimales(v[i].n)
                    THEN "decimal" ELSE "int"
             [] v[1].k = "Date" -> IF todos("Date") THEN "date" ELSE "text"
             [] v[1].k = "boolean" ->
                  IF todos("boolean") THEN "boolean" ELSE "text"
             [] v[1].k = "string" ->
                  IF \E i \in DOMAIN v :
                       /\ v[i].k = "string"
                       /\ \E j \in DOMAIN v[i].s : EsCaracterNoNumerico(v[i].s[j])
                    THEN "text"
                  ELSE IF \A i \in DOMAIN v :
                            v[i].k = "string" /\ EsNumber(LimpiarNumero(v[i].s))
                    THEN IF \E i \in DOMAIN v : Incluye(LimpiarNumero(v[i].s), ".")
                           THEN "decimal" ELSE "int"
                  ELSE "text"
             [] OTHER -> "text"

\* the definitions of the given columns
DefinicionesDe(todasLasColumnas, datos) ==
  [c \in DOMAIN todasLasColumnas |->
     [nombre |-> todasLasColumnas[c],
      tipo |-> TipoDeColumna(
                 SelectSeq([r \in DOMAIN datos |->
                              Leer(datos[r], todasLasColumnas[c])], NoNulo)),
      esNullable |-> TRUE]]

analizarEstructuraColumnas(datos) ==
  DefinicionesDe(
    SinRepetidos(Aplanar([r \in DOMAIN datos |-> Claves(datos[r])])), datos)

\* ------------------------------------------------------------------------
\* Storage types
\* ------------------------------------------------------------------------
mapearTipoAPostgres(tipo) ==
  CASE tipo = "int"       -> "NUMERIC(20,0)"
    [] tipo = "decimal"   -> "NUMERIC(20,4)"
    [] tipo = "varchar"   -> "TEXT"
    [] tipo = "text"      -> "TEXT"
    [] tipo = "date"      -> "TIMESTAMP"
    [] tipo = "timestamp" -> "TIMESTAMP"
    [] tipo = "boolean"   -> "BOOLEAN"
    [] OTHER              -> "TEXT"

\* information_schema.columns.data_type of a column of the given storage type
data_type(tipoSQL) ==
  CASE tipoSQL \in {"NUMERIC(20,0)", "NUMERIC(20,4)"} -> "numeric"
    [] tipoSQL = "TEXT"      -> "text"
    [] tipoSQL = "TIMESTAMP" -> "timestamp without time zone"
    [] tipoSQL = "BOOLEAN"   -> "boolean"
    [] tipoSQL = "SERIAL"    -> "integer"
    [] OTHER                 -> "text"

LiteralesBooleanos ==
  Verdaderos \cup Falsos
    \cup {<<"t">>, <<"f">>, <<"o", "n">>, <<"o", "f", "f">>}

\* whether the store converts the bound parameter v to a column of the given
\* storage type; otherwise the statement fails
AceptaValor(v, tipoSQL) ==
  \/ EsNulo(v)
  \/ tipoSQL = "TEXT"
  \/ /\ tipoSQL \in {"NUMERIC(20,0)", "NUMERIC(20,4)"}
     /\ \/ v.k = "number"
        \/ v.k = "string" /\ v.s # <<>> /\ LimpiarNumero(v.s) = v.s
                          /\ EsNumber(v.s)
  \/ /\ tipoSQL = "SERIAL"
     /\ \/ v.k = "number" /\ ~TieneDecimales(v.n)
        \/ v.k = "string" /\ v.s # <<>> /\ LimpiarNumero(v.s) = v.s
                          /\ EsNumber(v.s) /\ ~Incluye(v.s, ".")
  \/ /\ tipoSQL = "TIMESTAMP"
     /\ \/ v.k = "Date"
        \/ v.k = "string" /\ NuevaFecha(v.s)[1]
  \/ /\ tipoSQL = "BOOLEAN"
     /\ \/ v.k = "boolean"
        \/ v.k = "string" /\ toLowerCase(v.s) \in LiteralesBooleanos
        \/ v.k = "number" /\ v.n \in {0, Escala}

\* ------------------------------------------------------------------------
\* Bounds and inputs
\* ------------------------------------------------------------------------
\* uploads (calls of create) in a run
MaxSubidas == 2

\* uploads in a run of the re-import specification
MaxReimportes == 4

\* keys a table issues to its rows
MaxSerial == 3

\* const tamanoLote = 100
tamanoLote == 100

ColId == <<"i", "d">>

ColFecha ==
  <<"f", "e", "c", "h", "a", "_", "e", "n", "t", "r", "e", "g", "a">>

ColCantidad == <<"c", "a", "n", "t", "i", "d", "a", "d">>

ColMonto == <<"M", "o", "n", "t", "o", " ", "T", "o", "t", "a", "l">>

ColMontoNorm == <<"m", "o", "n", "t", "o", "_", "t", "o", "t", "a", "l">>

ColOtra == <<"z", "z">>

FechaInvalida == <<"2", "0", "2", "4", "-", "1", "3", "-", "4", "5">>

FechaValida == <<"2", "0", "2", "4", "-", "0", "1", "-", "1", "5">>

\* table names offered to create and update
TablaUno == <<"t", "1">>

\* a name that begins with another and goes on with "_"
TablaUnoA == <<"t", "1", "_", "a">>

TablaDos == <<"t", "2">>

TablaReservada == <<"s", "e", "l", "e", "c", "t">>

NombresTabla == {TablaUno, TablaDos, TablaReservada, TablaUnoA}

\* table names that do not match the pattern of a name
TablaMayuscula == <<"T", "1">>

TablaNumeral == <<"1", "t">>

\* uploaded files: original name (base and extension)
ArchivoCsv == [base |-> "compras", ext |-> ".csv"]

ArchivoXlsx == [base |-> "entregas", ext |-> ".xlsx"]

Usuarios == {"u1"}

\* parsed rows of the files that may be uploaded: csv-parser yields text
\* cells, the spreadsheet reader yields typed cells
ContenidoVacio == <<>>

ContenidoCsv ==
  << <<[c |-> ColMonto, v |-> Str(<<"1", "0", "0">>)]>>,
     <<[c |-> ColMonto, v |-> Str(<<"2", "0", "0", ".", "5", "0">>)]>> >>

ContenidoXlsx ==
  << <<[c |-> ColFecha, v |-> Fecha(20240115)],
       [c |-> ColCantidad, v |-> Num(5 * Escala)]>>,
     <<[c |-> ColFecha, v |-> Fecha(20240229)]>> >>

ContenidoConId ==
  << <<[c |-> ColId, v |-> Num(7 * Escala)],
       [c |-> ColCantidad, v |-> Num(5 * Escala)]>> >>

\* the uploads: a file and what it parses to
CargaVacia == [file |-> ArchivoCsv, contenido |-> ContenidoVacio]

CargaCsv == [file |-> ArchivoCsv, contenido |-> ContenidoCsv]

CargaXlsx == [file |-> ArchivoXlsx, contenido |-> ContenidoXlsx]

CargaConId == [file |-> ArchivoXlsx, contenido |-> ContenidoConId]

\* the file of scenario A: one header, three text cells
ContenidoEscenarioA ==
  << <<[c |-> ColMonto, v |-> Str(<<"1", "0", "0">>)]>>,
     <<[c |-> ColMonto, v |-> Str(<<"2", "0", "0", ".", "5", "0">>)]>>,
     <<[c |-> ColMonto, v |-> Str(<<"N", "U", "L", "L">>)]>> >>

ColCantidadCruda == <<"C", "a", "n", "t", "i", "d", "a", "d">>

ColOtraCruda == <<"O", "t", "r", "a", " ", "C", "o", "l">>

\* cells of a column under type inference
ValoresDeColumna ==
  { Str(<<"5">>), Str(<<"7">>), Str(<<"a", "b", "c">>), Str(<<",">>),
    Num(5 * Escala) }

\* values in a column under type inference
MaxValores == 3

\* the columns under type inference: up to MaxValores cells
ColumnasMixtas ==
  UNION {[1..n -> ValoresDeColumna] : n \in 1..MaxValores}

\* numbers of a workbook: two whole, two with decimals
NumerosDeHoja == {Num(5 * Escala), Num(7 * Escala), Num(250), Num(375)}

\* workbooks of two rows with a column of whole numbers next to a column of
\* any numbers, and workbooks of one column of two cells, the second of them
\* a number with decimals
ContenidosConDecimales ==
  { << <<[c |-> ColCantidadCruda, v |-> Num(5 * Escala)],
         [c |-> ColMonto, v |-> a]>>,
       <<[c |-> ColCantidadCruda, v |-> Num(7 * Escala)],
         [c |-> ColMonto, v |-> b]>> >> :
      a \in NumerosDeHoja, b \in NumerosDeHoja }
    \cup { << <<[c |-> ColCantidadCruda, v |-> a]>>,
              <<[c |-> ColCantidadCruda, v |-> Num(250)]>> >> :
             a \in ValoresDeColumna }

\* files of one column, of a header only the second row has, scenario A, and
\* the workbooks with decimals
ContenidosDeAnalisis ==
  {[r \in DOMAIN col |-> <<[c |-> ColCantidadCruda, v |-> col[r]]>>] :
     col \in ColumnasMixtas}
    \cup { ContenidoEscenarioA,
           << <<[c |-> ColMonto, v |-> Str(<<"1">>)]>>,
              <<[c |-> ColMonto, v |-> Str(<<"2">>)],
                [c |-> ColOtraCruda, v |-> Str(<<"x">>)]>> >> }
    \cup ContenidosConDecimales

CargasDeAnalisis ==
  {[file |-> ArchivoXlsx, contenido |-> contenido] :
     contenido \in ContenidosDeAnalisis}

\* rows of the table of the paging scenario
FilasEscenarioD == 25

\* a spreadsheet of FilasEscenarioD rows, one whole number in each
ContenidoVeinticinco ==
  [r \in 1..FilasEscenarioD |->
     <<[c |-> ColCantidad, v |-> Num((r % 3) * Escala)]>>]

CargaVeinticinco == [file |-> ArchivoXlsx, contenido |-> ContenidoVeinticinco]

\* files of one column of whole numbers: a workbook and a CSV file
ColAB == <<"a", "_", "b">>

ColB == <<"b">>

ContenidoAB == << <<[c |-> ColAB, v |-> Num(1 * Escala)]>> >>

ContenidoB ==
  << <<[c |-> ColB, v |-> Str(<<"2">>)]>>,
     <<[c |-> ColB, v |-> Str(<<"3">>)]>> >>

CargaAB == [file |-> ArchivoXlsx, contenido |-> ContenidoAB]

CargaB == [file |-> ArchivoCsv, contenido |-> ContenidoB]

\* rounds of two imports at once
MaxRondas == 2

\* pages a read asks for
MaxPagina == 3

\* page sizes a read asks for
Limites == {2, 10}

\* the filters of the read requests: fields in the order of Object.entries
FiltrosOfrecidos ==
  { <<>>,
    <<[c |-> ColCantidad, v |-> Num(Escala)]>>,
    <<[c |-> ColOtra, v |-> Str(<<"x">>)]>>,
    <<[c |-> ColOtra, v |-> Str(<<"x">>)],
      [c |-> ColCantidad, v |-> Str(<<"1">>)]>>,
    <<[c |-> ColCantidad, v |-> Str(<<"a", "b", "c">>)]>>,
    <<[c |-> ColCantidad, v |-> Num(Escala)],
      [c |-> ColOtra, v |-> Str(<<"x">>)],
      [c |-> ColId, v |-> Num(Escala)]>> }

\* bodies of the row requests
DatosFila ==
  { <<[c |-> ColFecha, v |-> Str(FechaInvalida)]>>,
    <<[c |-> ColFecha, v |-> Str(FechaValida)],
      [c |-> ColCantidad, v |-> Str(<<"7">>)]>>,
    <<[c |-> ColMontoNorm, v |-> Str(<<"3", ".", "5">>)]>>,
    <<[c |-> ColId, v |-> Num(9 * Escala)],
      [c |-> ColOtra, v |-> Str(<<"x">>)]>>,
    <<[c |-> ColId, v |-> Num(9 * Escala)],
      [c |-> ColCantidad, v |-> Str(<<"8">>)]>> }

\* ------------------------------------------------------------------------
\* State
\* ------------------------------------------------------------------------
VARIABLES
  importaciones,  \* the ShoppingEntity rows, by id
  tablas,         \* the dynamic tables, by name
  archivos,       \* the paths of the staged files on disk
  subidas,        \* uploads received so far
  ultimo,         \* the last request and its outcome
  entrada,        \* sanitizer: the raw value
  tipoEntrada,    \* sanitizer: the inferred type
  salida,         \* sanitizer: the results
  fase,           \* sanitizer: the position
  unidad,         \* unit of work: the operation in progress
  procesos,       \* imports in progress at once: their positions
  cargador,       \* the batch loader in progress: its position
  lector          \* the CSV reader: the file head and the separator

vars ==
  <<importaciones, tablas, archivos, subidas, ultimo,
    entrada, tipoEntrada, salida, fase, unidad, procesos, cargador, lector>>

varsServicio == <<importaciones, tablas, archivos, subidas, ultimo>>

varsSanitizador == <<entrada, tipoEntrada, salida, fase>>

\* what a request of the service leaves alone
varsAparte == <<varsSanitizador, unidad, procesos, cargador, lector>>

SinTabla ==
  [existe |-> FALSE, columnas |-> <<>>, filas |-> <<>>, serial |-> 1,
   indices |-> {}]

SinArchivo == [base |-> "", ext |-> ""]

SinResultado ==
  [op |-> "", estado |-> "", etapa |-> "", id |-> 0, archivo |-> SinArchivo,
   tabla |-> <<>>, datos |-> <<>>, parametros |-> <<>>, enviados |-> 0,
   fallidos |-> 0, lotesPerdidos |-> 0, totalRecords |-> 0,
   totalRegistros |-> 0, page |-> 0, limit |-> 0, filtros |-> <<>>,
   whereClause |-> FALSE, condiciones |-> <<>>, valores |-> <<>>,
   leidas |-> <<>>, totalPages |-> 0, consultas |-> 0]

SinSalida == [carga |-> Nulo, fila |-> Nulo, otraVez |-> Nulo]

InitServicio ==
  /\ importaciones = <<>>
  /\ tablas = [n \in NombresTabla |-> SinTabla]
  /\ archivos = {}
  /\ subidas = 0
  /\ ultimo = SinResultado

\* ------------------------------------------------------------------------
\* Table name validation
\* ------------------------------------------------------------------------
palabrasReservadas ==
  { <<"s", "e", "l", "e", "c", "t">>, <<"f", "r", "o", "m">>,
    <<"w", "h", "e", "r", "e">>, <<"i", "n", "s", "e", "r", "t">>,
    <<"u", "p", "d", "a", "t", "e">>, <<"d", "e", "l", "e", "t", "e">>,
    <<"d", "r", "o", "p">>, <<"c", "r", "e", "a", "t", "e">>,
    <<"t", "a", "b", "l", "e">>, <<"i", "n", "d", "e", "x">>,
    <<"v", "i", "e", "w">>, <<"s", "e", "q", "u", "e", "n", "c", "e">>,
    <<"t", "r", "i", "g", "g", "e", "r">>, <<"u", "s", "e", "r">>,
    <<"g", "r", "o", "u", "p">>, <<"o", "r", "d", "e", "r">>, <<"b", "y">>,
    <<"h", "a", "v", "i", "n", "g">>, <<"l", "i", "m", "i", "t">>,
    <<"o", "f", "f", "s", "e", "t">>, <<"j", "o", "i", "n">> }

\* validarNombreTabla with the test of the reserved words left out
validarNombreTablaSinReservadas(nombreTabla) ==
  /\ Len(nombreTabla) >= 1
  /\ nombreTabla[1] \in Rango(Minusculas)
  /\ \A i \in 2..Len(nombreTabla) :
       \/ nombreTabla[i] \in Rango(Minusculas)
       \/ EsDigito(nombreTabla[i])
       \/ nombreTabla[i] = "_"

\* TRUE when validarNombreTabla returns, FALSE when it throws
validarNombreTabla(nombreTabla) ==
  /\ Len(nombreTabla) >= 1
  /\ nombreTabla[1] \in Rango(Minusculas)
  /\ \A i \in 2..Len(nombreTabla) :
       \/ nombreTabla[i] \in Rango(Minusculas)
       \/ EsDigito(nombreTabla[i])
       \/ nombreTabla[i] = "_"
  /\ toLowerCase(nombreTabla) \notin palabrasReservadas

\* ------------------------------------------------------------------------
\* Dynamic schema manager
\* ------------------------------------------------------------------------
TieneColumna(columnas, nombre) ==
  \E i \in DOMAIN columnas : columnas[i].nombre = nombre

ColumnaDe(columnas, nombre) ==
  columnas[CHOOSE i \in DOMAIN columnas : columnas[i].nombre = nombre]

\* whether the store executes the CREATE TABLE statement: "id" is already a
\* column of it, and an identifier is not empty
SentenciaValida(columnas) ==
  \A i \in DOMAIN columnas :
    columnas[i].nombre # ColId /\ columnas[i].nombre # <<>>

\* the indexes crearIndices creates
crearIndices(columnas) ==
  {columnas[i].nombre : i \in {j \in DOMAIN columnas :
                                 columnas[j].tipo \in {"int", "date", "varchar"}}}

\* the table after DROP TABLE IF EXISTS and CREATE TABLE; the key "id" is
\* implicit in a table and columnas holds the others
TablaCreada(columnas) ==
  [existe |-> TRUE,
   columnas |-> [i \in DOMAIN columnas |->
                   [nombre |-> columnas[i].nombre,
                    tipoSQL |-> mapearTipoAPostgres(columnas[i].tipo),
                    esNullable |-> columnas[i].esNullable]],
   filas |-> <<>>,
   serial |-> 1,
   indices |-> crearIndices(columnas)]

\* [ok, tabla]: a failed statement rolls the transaction back and the table
\* of that name, if any, stays as it was
crearTablaDinamica(anterior, columnas) ==
  IF columnas # <<>> /\ SentenciaValida(columnas)
    THEN [ok |-> TRUE, tabla |-> TablaCreada(columnas)]
    ELSE [ok |-> FALSE, tabla |-> anterior]

\* the catalog's view of a table
obtenerEstructuraTabla(t) ==
  IF ~t.existe THEN <<>>
  ELSE <<[nombre |-> ColId, tipo |-> data_type("SERIAL")]>>
         \o [i \in DOMAIN t.columnas |->
               [nombre |-> t.columnas[i].nombre,
                tipo |-> data_type(t.columnas[i].tipoSQL)]]

\* the value a column of the given storage type holds for a parameter
ValorAlmacenado(v, tipoSQL) ==
  IF EsNulo(v) THEN Nulo
  ELSE CASE tipoSQL \in {"NUMERIC(20,0)", "SERIAL"} ->
              IF v.k = "string" THEN Num(MathRound(parseFloat(v.s)[2]))
              ELSE Num(MathRound(v.n))
         [] tipoSQL = "NUMERIC(20,4)" ->
              IF v.k = "string" THEN Num(parseFloat(v.s)[2]) ELSE v
         [] tipoSQL = "TIMESTAMP" ->
              IF v.k = "string" THEN Fecha(NuevaFecha(v.s)[2]) ELSE v
         [] tipoSQL = "BOOLEAN" ->
              IF v.k = "string"
                THEN Bool(toLowerCase(v.s) \in
                            Verdaderos \cup {<<"t">>, <<"o", "n">>})
              ELSE IF v.k = "number" THEN Bool(v.n # 0)
              ELSE v
         [] OTHER ->
              IF v.k = "Date" THEN Str(TextoISO(v.n)) ELSE Str(TextoDe(v))

\* whether the store executes a statement binding these parameters
AceptaParametros(t, parametros) ==
  \A i \in DOMAIN parametros :
    /\ TieneColumna(t.columnas, parametros[i].c)
    /\ AceptaValor(parametros[i].v, ColumnaDe(t.columnas, parametros[i].c).tipoSQL)

\* the values of a row, by column, after INSERT or UPDATE of the parameters
ValoresFila(t, previos, parametros) ==
  [j \in DOMAIN t.columnas |->
     IF TieneClave(parametros, t.columnas[j].nombre)
       THEN ValorAlmacenado(Leer(parametros, t.columnas[j].nombre),
                            t.columnas[j].tipoSQL)
       ELSE previos[j]]

\* INSERT INTO t (...) VALUES (...)
InsertarFila(t, parametros) ==
  [t EXCEPT
     !.filas = Append(@, [id |-> t.serial,
                          vals |-> ValoresFila(t, [j \in DOMAIN t.columnas |-> Nulo],
                                               parametros)]),
     !.serial = @ + 1]

\* ------------------------------------------------------------------------
\* Batch loader
\* ------------------------------------------------------------------------
\* the columns and sanitized values insertarLote binds for one record
ParametrosDeRegistro(columnas, registro) ==
  LET presente(e) == NoNulo(e.v) /\ TieneColumna(columnas, e.c)
      campos == SelectSeq(registro, presente)
  IN  [i \in DOMAIN campos |->
         [c |-> campos[i].c,
          v |-> sanitizarValorSegunTipo(campos[i].v,
                                        ColumnaDe(columnas, campos[i].c).tipo)]]

\* the transaction of a batch: its table, whether a failed statement has
\* aborted it, and insertarLote's two counters
LoteAbierto(t) ==
  [tabla |-> t, abortada |-> FALSE, recordsProcessed |-> 0, recordsFailed |-> 0]

\* queryRunner.query(query, valores) in insertarLote's try.  The store
\* rejects the INSERT when it cannot convert a parameter, when the
\* environment makes it (rechazado), and when an earlier statement of the
\* transaction failed: the store then ignores every statement until the end
\* of the transaction block
EjecutarInsert(e, parametros, rechazado) ==
  IF parametros = <<>> THEN e
  ELSE IF e.abortada \/ rechazado \/ ~AceptaParametros(e.tabla, parametros)
    THEN [e EXCEPT !.abortada = TRUE, !.recordsFailed = @ + 1]
  ELSE [e EXCEPT !.tabla = InsertarFila(@, parametros),
                 !.recordsProcessed = @ + 1]

\* one turn of insertarLote's loop
InsertarRegistro(e, columnas, registro, rechazado) ==
  EjecutarInsert(e, ParametrosDeRegistro(columnas, registro), rechazado)

\* the transaction after the records desde..hasta; rechazados are the
\* positions of the records whose INSERT the store rejects
RECURSIVE insertarLote(_, _, _, _, _, _)
insertarLote(e, columnas, datos, desde, hasta, rechazados) ==
  IF desde > hasta THEN e
  ELSE insertarLote(
         InsertarRegistro(e, columnas, datos[desde], desde \in rechazados),
         columnas, datos, desde + 1, hasta, rechazados)

\* the re-scan for decimal numbers in columns typed int
columnasDeCarga(columnas, datos) ==
  LET decimal(v) == v.k = "number" /\ TieneDecimales(v.n)
      hasDecimalNumbers ==
        \E r \in DOMAIN datos : \E i \in DOMAIN datos[r] : decimal(datos[r][i].v)
  IN  IF ~hasDecimalNumbers THEN columnas
      ELSE [c \in DOMAIN columnas |->
              IF /\ columnas[c].tipo = "int"
                 /\ \E r \in DOMAIN datos :
                      decimal(Leer(datos[r], columnas[c].nombre))
                THEN [columnas[c] EXCEPT !.tipo = "decimal"]
                ELSE columnas[c]]

Minimo(a, b) == IF a < b THEN a ELSE b

\* the load after the transaction e of a batch of n records ends: COMMIT of
\* an aborted transaction, like ROLLBACK, undoes its statements and reports
\* no error; the sequence of the key is not rewound.  revertido: the commit
\* throws and the catch rolls the batch back
FinDeLote(c, e, revertido, n) ==
  [tabla |-> IF revertido \/ e.abortada
               THEN [c.tabla EXCEPT !.serial = e.tabla.serial]
               ELSE e.tabla,
   totalRecords |-> IF revertido THEN c.totalRecords ELSE c.totalRecords + n,
   recordsFailed |-> c.recordsFailed + e.recordsFailed]

\* the loop over the batches from batch b on; perdidos are the batches
\* whose commitTransaction throws
RECURSIVE CargarLotes(_, _, _, _, _, _)
CargarLotes(c, columnas, datos, b, rechazados, perdidos) ==
  LET i     == (b - 1) * tamanoLote
      hasta == Minimo(i + tamanoLote, Len(datos))
  IN  IF i >= Len(datos) THEN c
      ELSE CargarLotes(
             FinDeLote(c,
                       insertarLote(LoteAbierto(c.tabla), columnas, datos,
                                    i + 1, hasta, rechazados),
                       b \in perdidos, hasta - i),
             columnas, datos, b + 1, rechazados, perdidos)

\* what insertarDatosEnTabla leaves: ok is FALSE when it throws
FinDeCarga(c) ==
  [ok |-> c.totalRecords # 0, tabla |-> c.tabla,
   totalRecords |-> c.totalRecords, recordsFailed |-> c.recordsFailed]

\* [ok, tabla, totalRecords, recordsFailed]
insertarDatosEnTabla(t, columnas, datos, rechazados, perdidos) ==
  IF datos = <<>>
    THEN [ok |-> TRUE, tabla |-> t, totalRecords |-> 0, recordsFailed |-> 0]
  ELSE FinDeCarga(
         CargarLotes([tabla |-> t, totalRecords |-> 0, recordsFailed |-> 0],
                     columnasDeCarga(columnas, datos), datos, 1, rechazados,
                     perdidos))

NumeroDeLotes(datos) == (Len(datos) + tamanoLote - 1) \div tamanoLote

\* truncation of long text in varchar columns
sanitizarValoresLargos(datos, columnas) ==
  [r \in DOMAIN datos |->
     [i \in DOMAIN datos[r] |->
        IF /\ TieneColumna(columnas, datos[r][i].c)
           /\ ColumnaDe(columnas, datos[r][i].c).tipo = "varchar"
           /\ datos[r][i].v.k = "string"
           /\ Len(datos[r][i].v.s) > 250
          THEN [datos[r][i] EXCEPT !.v = Str(SubSeq(@.s, 1, 250))]
          ELSE datos[r][i]]]

\* ------------------------------------------------------------------------
\* Import ledger
\* ------------------------------------------------------------------------
\* the ids findOne({nombreArchivo, nombreTabla, isActive: true}) may return
Existentes(file, nombreTabla) ==
  {i \in DOMAIN importaciones :
     /\ importaciones[i].nombreArchivo = file
     /\ importaciones[i].nombreTabla = nombreTabla
     /\ importaciones[i].isActive}

\* findOne(id) finds an active import
Encontrada(id) == id \in DOMAIN importaciones /\ importaciones[id].isActive

\* path.extname(file.originalname).substring(1)
tipoArchivo(file) ==
  CASE file.ext = ".csv"  -> "csv"
    [] file.ext = ".xlsx" -> "xlsx"
    [] file.ext = ".xls"  -> "xls"
    [] OTHER              -> ""

\* the ledger, tables and files after remove(id) of an active import
EfectoRemove(id) ==
  [imp  |-> [importaciones EXCEPT ![id].isActive = FALSE],
   tab  |-> [tablas EXCEPT ![importaciones[id].nombreTabla] = SinTabla],
   arch |-> archivos \ {importaciones[id].rutaArchivo}]

\* the result of analizarArchivo for the normalized rows
\* an inference that remembers that it ran before: every column is text
\* once the ledger has an import
AnalizadoConMemoria(datos) ==
  [ok |-> TRUE,
   estructuraColumnas |->
     [c \in DOMAIN analizarEstructuraColumnas(datos) |->
        [analizarEstructuraColumnas(datos)[c] EXCEPT
           !.tipo = IF importaciones = <<>> THEN @ ELSE "text"]],
   datos |-> datos]

Analizado(datos) ==
  [ok |-> TRUE, estructuraColumnas |-> analizarEstructuraColumnas(datos),
   datos |-> datos]

\* [ok, estructuraColumnas, datos]; contenido is what the file parses to
analizarArchivo(file, contenido) ==
  IF file.ext \notin {".xlsx", ".xls", ".csv"} \/ contenido = <<>>
    THEN [ok |-> FALSE, estructuraColumnas |-> <<>>, datos |-> <<>>]
    ELSE Analizado(normalizarNombresColumnas(contenido))

\* the outcome of create: the ledger, the tables, the files and the result
Efecto(imp, tab, arch, res) ==
  [imp |-> imp, tab |-> tab, arch |-> arch, res |-> res]

ResultadoCreate(file, nombreTabla, estado, etapa) ==
  [SinResultado EXCEPT !.op = "create", !.archivo = file,
                       !.tabla = nombreTabla, !.estado = estado,
                       !.etapa = etapa]

\* create from the save of totalRegistros on: carga is what the loader left
CreateCargado(q, imp2, id, file, nombreTabla, datos, perdidos, carga) ==
  LET cuenta(estado, etapa, totalRegistros) ==
        [ResultadoCreate(file, nombreTabla, estado, etapa) EXCEPT
           !.id = id,
           !.enviados = Len(datos),
           !.fallidos = carga.recordsFailed,
           !.lotesPerdidos =
             Cardinality(perdidos \cap (1..NumeroDeLotes(datos))),
           !.totalRecords = carga.totalRecords,
           !.totalRegistros = totalRegistros]
      tab2 == [q.tab EXCEPT ![nombreTabla] = carga.tabla]
  IN  IF ~carga.ok
        THEN Efecto(imp2, tab2, q.arch,
                    cuenta("InternalServerError", "carga", 0))
        ELSE Efecto([imp2 EXCEPT ![id].totalRegistros = Len(datos)], tab2,
                    q.arch, cuenta("ok", "fin", Len(datos)))

\* create from the load on: ct is what crearTablaDinamica left
CreateConTabla(q, imp2, id, file, nombreTabla, a, rechazados, perdidos, ct) ==
  IF ~ct.ok
    THEN Efecto(imp2, q.tab, q.arch,
                [ResultadoCreate(file, nombreTabla, "InternalServerError",
                                 "tabla") EXCEPT !.id = id])
    ELSE CreateCargado(
           q, imp2, id, file, nombreTabla, a.datos, perdidos,
           insertarDatosEnTabla(
             ct.tabla, a.estructuraColumnas,
             sanitizarValoresLargos(a.datos, a.estructuraColumnas),
             rechazados, perdidos))

\* create from the save of the new import on: a is the analysis of the file
CreateAnalizado(q, file, nombreTabla, usuarioId, rechazados, perdidos, ruta, a) ==
  IF ~a.ok \/ a.estructuraColumnas = <<>>
    THEN Efecto(q.imp, q.tab, q.arch,
                ResultadoCreate(file, nombreTabla, "BadRequest", "analizar"))
    ELSE CreateConTabla(
           q,
           Append(q.imp,
                  [id |-> Len(q.imp) + 1, nombreArchivo |-> file,
                   tipoArchivo |-> tipoArchivo(file),
                   nombreTabla |-> nombreTabla, rutaArchivo |-> ruta,
                   estructuraColumnas |-> a.estructuraColumnas,
                   usuarioId |-> usuarioId, totalRegistros |-> 0,
                   isActive |-> TRUE]),
           Len(q.imp) + 1, file, nombreTabla, a, rechazados, perdidos,
           crearTablaDinamica(q.tab[nombreTabla], a.estructuraColumnas))

\* the ledger, the tables and the files once the import findOne returned
\* (previa; 0: none) is removed and the file is on disk at ruta
TrasPrevia(previa, ruta) ==
  IF previa = 0
    THEN [imp |-> importaciones, tab |-> tablas, arch |-> archivos \cup {ruta}]
    ELSE [imp  |-> [importaciones EXCEPT ![previa].isActive = FALSE],
          tab  |-> [tablas EXCEPT ![importaciones[previa].nombreTabla] = SinTabla],
          arch |-> (archivos \ {importaciones[previa].rutaArchivo}) \cup {ruta}]

\* the outcome of create
EfectoCreate(file, nombreTabla, usuarioId, contenido, rechazados, perdidos, previa, ruta) ==
  IF ~validarNombreTabla(nombreTabla)
    THEN Efecto(importaciones, tablas, archivos \cup {ruta},
                ResultadoCreate(file, nombreTabla, "BadRequest", "validar"))
    ELSE CreateAnalizado(TrasPrevia(previa, ruta), file, nombreTabla,
                         usuarioId, rechazados, perdidos, ruta,
                         analizarArchivo(file, contenido))

\* the outcome with the rows the uploaded file parses to kept in the result
ConContenido(e, contenido) == [e EXCEPT !.res.datos = contenido]

Resulta(e) ==
  /\ importaciones' = e.imp
  /\ tablas' = e.tab
  /\ archivos' = e.arch
  /\ ultimo' = e.res

\* the imports findOne({nombreArchivo, nombreTabla, isActive: true}) may
\* return: 0 when there is none
Previas(file, nombreTabla) ==
  IF Existentes(file, nombreTabla) = {} THEN {0}
  ELSE Existentes(file, nombreTabla)

create(limite, file, nombreTabla, usuarioId, contenido, rechazados, perdidos, previa) ==
  /\ subidas < limite
  /\ previa \in Previas(file, nombreTabla)
  /\ Resulta(ConContenido(
               EfectoCreate(file, nombreTabla, usuarioId, contenido,
                            rechazados, perdidos, previa, subidas + 1),
               contenido))
  /\ subidas' = subidas + 1
  /\ UNCHANGED varsAparte

remove(id) ==
  /\ IF ~Encontrada(id)
       THEN /\ ultimo' = [SinResultado EXCEPT !.op = "remove", !.id = id,
                                              !.estado = "NotFound"]
            /\ UNCHANGED <<importaciones, tablas, archivos>>
       ELSE /\ importaciones' = EfectoRemove(id).imp
            /\ tablas' = EfectoRemove(id).tab
            /\ archivos' = EfectoRemove(id).arch
            /\ ultimo' = [SinResultado EXCEPT !.op = "remove", !.id = id,
                                              !.estado = "ok"]
  /\ UNCHANGED <<subidas, varsAparte>>

\* an empty name or user in the request leaves the field as it is
update(id, nombreTabla, usuarioId) ==
  /\ IF ~Encontrada(id)
       THEN /\ ultimo' = [SinResultado EXCEPT !.op = "update", !.id = id,
                                              !.estado = "NotFound"]
            /\ UNCHANGED importaciones
       ELSE /\ importaciones' =
                 [importaciones EXCEPT
                    ![id].nombreTabla = IF nombreTabla # <<>> THEN nombreTabla ELSE @,
                    ![id].usuarioId = IF usuarioId # "" THEN usuarioId ELSE @]
            /\ ultimo' = [SinResultado EXCEPT !.op = "update", !.id = id,
                                              !.estado = "ok"]
  /\ UNCHANGED <<tablas, archivos, subidas, varsAparte>>

\* ------------------------------------------------------------------------
\* Table query service: row mutations
\* ------------------------------------------------------------------------
verificarTablaExiste(nombreTabla) ==
  nombreTabla \in DOMAIN tablas /\ tablas[nombreTabla].existe

ExisteFila(t, id) == \E i \in DOMAIN t.filas : t.filas[i].id = id

\* every field of the request as it came: nothing filtered, nothing sanitized
datosSinFiltrar(estructura, datos) == datos

\* the fields of the request that name a column other than id, each
\* sanitized with the type the catalog gives for its column
datosFiltrados(estructura, datos) ==
  LET valido(e) == TieneColumna(estructura, e.c) /\ e.c # ColId
      campos == SelectSeq(datos, valido)
  IN  [i \in DOMAIN campos |->
         [c |-> campos[i].c,
          v |-> sanitizarValorSegunTipo(campos[i].v,
                                        ColumnaDe(estructura, campos[i].c).tipo)]]

\* the statements a request ran against the table it names
ConConsultas(res, n) == [res EXCEPT !.consultas = n]

ResultadoFila(op, nombreTabla, id, datos, parametros, estado) ==
  [SinResultado EXCEPT !.op = op, !.tabla = nombreTabla, !.id = id,
                       !.datos = datos, !.parametros = parametros,
                       !.estado = estado]

\* agregarRegistro once the fields are filtered
AgregarFiltrados(nombreTabla, t, datos, parametros) ==
  IF parametros = <<>>
    THEN /\ ultimo' = ResultadoFila("agregarRegistro", nombreTabla, 0, datos,
                                    <<>>, "BadRequest")
         /\ UNCHANGED tablas
  ELSE IF ~AceptaParametros(t, parametros)
    THEN /\ ultimo' = ConConsultas(
                          ResultadoFila("agregarRegistro", nombreTabla, 0,
                                        datos, parametros,
                                        "InternalServerError"), 1)
         /\ UNCHANGED tablas
  ELSE /\ tablas' = [tablas EXCEPT ![nombreTabla] = InsertarFila(t, parametros)]
       /\ ultimo' = ConConsultas(
                        ResultadoFila("agregarRegistro", nombreTabla, t.serial,
                                      datos, parametros, "ok"), 1)

agregarRegistro(nombreTabla, datos) ==
  /\ verificarTablaExiste(nombreTabla) =>
       tablas[nombreTabla].serial <= MaxSerial
  /\ IF ~verificarTablaExiste(nombreTabla)
       THEN /\ ultimo' = ResultadoFila("agregarRegistro", nombreTabla, 0,
                                       datos, <<>>, "NotFound")
            /\ UNCHANGED tablas
       ELSE AgregarFiltrados(
              nombreTabla, tablas[nombreTabla], datos,
              datosFiltrados(obtenerEstructuraTabla(tablas[nombreTabla]),
                             datos))
  /\ UNCHANGED <<importaciones, archivos, subidas, varsAparte>>

\* actualizarRegistro once the fields are filtered
ActualizarFiltrados(nombreTabla, t, id, datos, parametros) ==
  IF parametros = <<>>
    THEN /\ ultimo' = ConConsultas(
                          ResultadoFila("actualizarRegistro", nombreTabla, id,
                                        datos, <<>>, "BadRequest"), 1)
         /\ UNCHANGED tablas
  ELSE IF ~AceptaParametros(t, parametros)
    THEN /\ ultimo' = ConConsultas(
                          ResultadoFila("actualizarRegistro", nombreTabla, id,
                                        datos, parametros,
                                        "InternalServerError"), 2)
         /\ UNCHANGED tablas
  ELSE /\ tablas' =
            [tablas EXCEPT ![nombreTabla].filas =
               [i \in DOMAIN @ |->
                  IF @[i].id = id
                    THEN [@[i] EXCEPT !.vals = ValoresFila(t, @, parametros)]
                    ELSE @[i]]]
       /\ ultimo' = ConConsultas(
                        ResultadoFila("actualizarRegistro", nombreTabla, id,
                                      datos, parametros, "ok"), 2)

actualizarRegistro(nombreTabla, id, datos) ==
  /\ IF ~verificarTablaExiste(nombreTabla)
       THEN /\ ultimo' = ResultadoFila("actualizarRegistro", nombreTabla, id,
                                       datos, <<>>, "NotFound")
            /\ UNCHANGED tablas
     ELSE IF ~ExisteFila(tablas[nombreTabla], id)
       THEN /\ ultimo' = ConConsultas(
                             ResultadoFila("actualizarRegistro", nombreTabla,
                                           id, datos, <<>>, "NotFound"), 1)
            /\ UNCHANGED tablas
       ELSE ActualizarFiltrados(
              nombreTabla, tablas[nombreTabla], id, datos,
              datosFiltrados(obtenerEstructuraTabla(tablas[nombreTabla]),
                             datos))
  /\ UNCHANGED <<importaciones, archivos, subidas, varsAparte>>

eliminarRegistro(nombreTabla, id) ==
  /\ LET t == tablas[nombreTabla]
         res(estado) ==
           ResultadoFila("eliminarRegistro", nombreTabla, id, <<>>, <<>>, estado)
         queda(f) == f.id # id
     IN  IF ~verificarTablaExiste(nombreTabla)
           THEN /\ ultimo' = res("NotFound")
                /\ UNCHANGED tablas
         ELSE IF ~ExisteFila(t, id)
           THEN /\ ultimo' = ConConsultas(res("NotFound"), 1)
                /\ UNCHANGED tablas
           ELSE /\ tablas' = [tablas EXCEPT ![nombreTabla].filas = SelectSeq(@, queda)]
                /\ ultimo' = ConConsultas(res("ok"), 2)
  /\ UNCHANGED <<importaciones, archivos, subidas, varsAparte>>

\* ------------------------------------------------------------------------
\* Table query service: reads
\* ------------------------------------------------------------------------
\* Number.MAX_SAFE_INTEGER, held as the largest integer the tools compute with
MAX_SAFE_INTEGER == 2147483647

\* the storage type of a column of the catalog's view; the key is SERIAL
TipoSQLDe(t, campo) ==
  IF campo = ColId THEN "SERIAL" ELSE ColumnaDe(t.columnas, campo).tipoSQL

\* the value a row holds in a column
Celda(t, fila, campo) ==
  IF campo = ColId THEN Num(fila.id * Escala)
  ELSE fila.vals[CHOOSE j \in DOMAIN t.columnas : t.columnas[j].nombre = campo]

\* one turn of the loop over Object.entries(filtros) with the test of the
\* field against the structure left out
AgregarCondicionSinValidar(w, estructuraColumnas, e) ==
  [condiciones |-> Append(w.condiciones,
                          [campo |-> e.c, marcador |-> w.paramIndex]),
   parametros |-> Append(w.parametros, e.v),
   paramIndex |-> w.paramIndex + 1]

\* one turn of the loop over Object.entries(filtros): the condition
\* "campo" = $paramIndex and its parameter
AgregarCondicion(w, estructuraColumnas, e) ==
  IF TieneColumna(estructuraColumnas, e.c)
    THEN [condiciones |-> Append(w.condiciones,
                                 [campo |-> e.c, marcador |-> w.paramIndex]),
          parametros |-> Append(w.parametros, e.v),
          paramIndex |-> w.paramIndex + 1]
    ELSE w

\* condiciones, parametros and paramIndex after the first n filters
RECURSIVE construirCondiciones(_, _, _)
construirCondiciones(estructuraColumnas, filtros, n) ==
  IF n = 0 THEN [condiciones |-> <<>>, parametros |-> <<>>, paramIndex |-> 1]
  ELSE AgregarCondicion(
         construirCondiciones(estructuraColumnas, filtros, n - 1),
         estructuraColumnas, filtros[n])

\* whether whereClause is ' WHERE ...' (TRUE) or '' (FALSE)
whereClause(filtros, w) ==
  IF Len(filtros) > 0
    THEN (IF Len(w.condiciones) > 0 THEN TRUE ELSE FALSE)
    ELSE FALSE

\* whether the store executes SELECT ... FROM t with this clause and these
\* parameters: a clause has a condition, every condition names a column and
\* a parameter the store converts to the column's type, and every parameter
\* is used
AceptaConsulta(t, w, hayWhere) ==
  /\ hayWhere => w.condiciones # <<>>
  /\ hayWhere =>
       \A i \in DOMAIN w.condiciones :
         /\ TieneColumna(obtenerEstructuraTabla(t), w.condiciones[i].campo)
         /\ w.condiciones[i].marcador \in DOMAIN w.parametros
         /\ AceptaValor(w.parametros[w.condiciones[i].marcador],
                        TipoSQLDe(t, w.condiciones[i].campo))
  /\ \A p \in DOMAIN w.parametros :
       hayWhere /\ \E i \in DOMAIN w.condiciones : w.condiciones[i].marcador = p

\* the rows of t the clause selects, in the order of the table
FilasQue(t, w, hayWhere) ==
  LET coincide(fila) ==
        \A i \in DOMAIN w.condiciones :
          /\ NoNulo(w.parametros[w.condiciones[i].marcador])
          /\ Celda(t, fila, w.condiciones[i].campo)
               = ValorAlmacenado(w.parametros[w.condiciones[i].marcador],
                                 TipoSQLDe(t, w.condiciones[i].campo))
  IN  IF hayWhere THEN SelectSeq(t.filas, coincide) ELSE t.filas

\* LIMIT limit OFFSET offset with the offset of one page too many
PaginaSiguiente(filas, page, limit) ==
  SubSeq(filas, page * limit + 1,
         IF Len(filas) - page * limit <= limit THEN Len(filas)
         ELSE page * limit + limit)

\* LIMIT limit OFFSET (page - 1) * limit
Pagina(filas, page, limit) ==
  SubSeq(filas, (page - 1) * limit + 1,
         IF Len(filas) - (page - 1) * limit <= limit THEN Len(filas)
         ELSE (page - 1) * limit + limit)

\* Math.ceil(a / b) for a >= 0, b >= 1
MathCeil(a, b) == IF a % b = 0 THEN a \div b ELSE (a \div b) + 1

ResultadoLectura(nombreTabla, page, limit, filtros, estado) ==
  [SinResultado EXCEPT !.tabla = nombreTabla, !.page = page, !.limit = limit,
                       !.filtros = filtros, !.estado = estado]

\* the response once the two queries ran on the selected rows
LecturaHecha(res, w, hayWhere, filas) ==
  [res EXCEPT !.estado = "ok",
              !.whereClause = hayWhere,
              !.condiciones = w.condiciones,
              !.valores = w.parametros,
              !.totalRegistros = Len(filas),
              !.leidas = [i \in DOMAIN Pagina(filas, res.page, res.limit) |->
                            Pagina(filas, res.page, res.limit)[i].id],
              !.totalPages = MathCeil(Len(filas), res.limit),
              !.consultas = 2]

\* obtenerDatosTabla from the count query on
LecturaCon(t, res, w, hayWhere) ==
  IF ~AceptaConsulta(t, w, hayWhere)
    THEN [res EXCEPT !.estado = "InternalServerError",
                     !.whereClause = hayWhere,
                     !.condiciones = w.condiciones,
                     !.valores = w.parametros,
                     !.consultas = 1]
    ELSE LecturaHecha(res, w, hayWhere, FilasQue(t, w, hayWhere))

\* obtenerDatosTabla from the clause on
LecturaFiltrada(t, res, filtros, w) ==
  LecturaCon(t, res, w, whereClause(filtros, w))

\* what obtenerDatosTabla returns, or the exception it throws
RespuestaDatosTabla(nombreTabla, page, limit, filtros) ==
  IF ~verificarTablaExiste(nombreTabla)
    THEN ResultadoLectura(nombreTabla, page, limit, filtros, "NotFound")
    ELSE LecturaFiltrada(
           tablas[nombreTabla],
           ResultadoLectura(nombreTabla, page, limit, filtros, ""), filtros,
           construirCondiciones(obtenerEstructuraTabla(tablas[nombreTabla]),
                                filtros, Len(filtros)))

ConOperacion(res, op) == [res EXCEPT !.op = op]

obtenerDatosTabla(nombreTabla, page, limit, filtros) ==
  /\ ultimo' = ConOperacion(
                 RespuestaDatosTabla(nombreTabla, page, limit, filtros),
                 "obtenerDatosTabla")
  /\ UNCHANGED <<importaciones, tablas, archivos, subidas, varsAparte>>

\* the catch of exportarExcel: every exception becomes
\* InternalServerErrorException
ExportadoDe(res) ==
  [res EXCEPT !.op = "exportarExcel",
              !.estado = IF @ = "ok" THEN "ok" ELSE "InternalServerError"]

exportarExcel(nombreTabla) ==
  /\ ultimo' = ExportadoDe(
                 RespuestaDatosTabla(nombreTabla, 1, MAX_SAFE_INTEGER, <<>>))
  /\ UNCHANGED <<importaciones, tablas, archivos, subidas, varsAparte>>

\* the statements obtenerEstadisticas runs on the table: the count, one for
\* a numeric column and three for any other
ConsultasEstadisticas(estructura) ==
  1 + Len(SelectSeq(estructura, LAMBDA c : c.nombre # ColId))
    + 2 * Len(SelectSeq(estructura,
                        LAMBDA c : c.nombre # ColId /\ c.tipo # "numeric"))

obtenerEstadisticas(nombreTabla) ==
  /\ ultimo' =
       IF ~verificarTablaExiste(nombreTabla)
         THEN [SinResultado EXCEPT !.op = "obtenerEstadisticas",
                                   !.tabla = nombreTabla,
                                   !.estado = "NotFound"]
         ELSE [SinResultado EXCEPT
                 !.op = "obtenerEstadisticas", !.tabla = nombreTabla,
                 !.estado = "ok",
                 !.totalRegistros = Len(tablas[nombreTabla].filas),
                 !.consultas =
                   ConsultasEstadisticas(
                     obtenerEstructuraTabla(tablas[nombreTabla]))]
  /\ UNCHANGED <<importaciones, tablas, archivos, subidas, varsAparte>>

\* ------------------------------------------------------------------------
\* Units of work: the query runner of an operation, its transaction, and
\* the change the operation makes.  An operation is the steps before its try
\* (antes), the steps in it (cuerpo), whether its catch rolls back
\* (revierte); a step marked interno is inside the try of a batch, whose
\* catch rolls back and goes on with the next batch.  A step may fail.
\* ------------------------------------------------------------------------
\* batches of a load in a unit of work
MaxLotes == 2

Instr(i) == [i |-> i, interno |-> FALSE]

Interna(i) == [i |-> i, interno |-> TRUE]

\* one turn of the loop over the batches
UnLote ==
  <<Instr("startTransaction"), Interna("insertarLote"),
    Interna("commitTransaction")>>

RECURSIVE Lotes(_)
Lotes(n) == IF n = 0 THEN <<>> ELSE UnLote \o Lotes(n - 1)

Programa(op) ==
  CASE op = "crearTablaDinamica" ->
         [antes |-> <<"connect", "startTransaction">>,
          cuerpo |-> <<Instr("query"), Instr("query"),
                       Instr("commitTransaction"), Instr("crearIndices")>>,
          revierte |-> TRUE]
    [] op = "agregarRegistro" ->
         [antes |-> <<"connect", "startTransaction">>,
          cuerpo |-> <<Instr("verificarTablaExiste"),
                       Instr("obtenerEstructuraTabla"), Instr("validar"),
                       Instr("query"), Instr("commitTransaction")>>,
          revierte |-> TRUE]
    [] op = "actualizarRegistro" ->
         [antes |-> <<"connect", "startTransaction">>,
          cuerpo |-> <<Instr("verificarTablaExiste"), Instr("consulta"),
                       Instr("obtenerEstructuraTabla"), Instr("validar"),
                       Instr("query"), Instr("validar"),
                       Instr("commitTransaction")>>,
          revierte |-> TRUE]
    [] op = "eliminarRegistro" ->
         [antes |-> <<"connect", "startTransaction">>,
          cuerpo |-> <<Instr("verificarTablaExiste"), Instr("consulta"),
                       Instr("query"), Instr("commitTransaction")>>,
          revierte |-> TRUE]
    [] op = "obtenerDatosTabla" ->
         [antes |-> <<"connect">>,
          cuerpo |-> <<Instr("verificarTablaExiste"),
                       Instr("obtenerEstructuraTabla"), Instr("consulta"),
                       Instr("consulta")>>,
          revierte |-> FALSE]
    [] op = "insertarDatosEnTabla" ->
         [antes |-> <<"connect">>,
          cuerpo |-> Append(Lotes(MaxLotes), Instr("validar")),
          revierte |-> FALSE]

Operaciones ==
  {"crearTablaDinamica", "agregarRegistro", "actualizarRegistro",
   "eliminarRegistro", "obtenerDatosTabla", "insertarDatosEnTabla"}

UnidadParada ==
  [op |-> "", pc |-> "parado", i |-> 0, manejador |-> "ninguno",
   liberaciones |-> 0, tx |-> "ninguna", cambio |-> "ninguno",
   revertidaTrasConfirmar |-> FALSE, lanzada |-> FALSE, resultado |-> ""]

\* the unit after a step that did not fail
Ejecutada(u, instr) ==
  CASE instr = "connect" -> [u EXCEPT !.manejador = "conectado"]
    [] instr = "startTransaction" -> [u EXCEPT !.tx = "activa"]
    [] instr \in {"query", "insertarLote"} -> [u EXCEPT !.cambio = "pendiente"]
    [] instr = "commitTransaction" ->
         [u EXCEPT !.tx = "confirmada",
                   !.cambio = IF @ = "pendiente" THEN "visible" ELSE @]
    [] OTHER -> u

\* the unit after rollbackTransaction: the store undoes the open
\* transaction; there is none to undo after a commit
Revertida(u) ==
  IF u.tx = "activa"
    THEN [u EXCEPT !.tx = "revertida",
                   !.cambio = IF @ = "pendiente" THEN "ninguno" ELSE @]
  ELSE IF u.tx = "confirmada" THEN [u EXCEPT !.revertidaTrasConfirmar = TRUE]
  ELSE u

\* the index of the step after the batch that step i is in
RECURSIVE TrasElLote(_, _)
TrasElLote(cuerpo, i) ==
  IF i > Len(cuerpo) \/ ~cuerpo[i].interno THEN i
  ELSE TrasElLote(cuerpo, i + 1)

\* the unit at step i of the try, or at the finally after the last step
EnCuerpo(u, i) ==
  IF i > Len(Programa(u.op).cuerpo) THEN [u EXCEPT !.pc = "finally", !.i = 0]
  ELSE [u EXCEPT !.pc = "cuerpo", !.i = i]

\* const queryRunner = this.dataSource.createQueryRunner()
Comenzar(op) ==
  /\ unidad.pc = "parado"
  /\ unidad' = [UnidadParada EXCEPT !.op = op, !.pc = "antes", !.i = 1,
                                    !.manejador = "creado"]
  /\ UNCHANGED <<varsServicio, varsSanitizador, procesos, cargador, lector>>

\* a step before the try: its exception leaves the operation at once
PasoAntes(falla) ==
  /\ unidad.pc = "antes"
  /\ unidad' =
       IF falla
         THEN [unidad EXCEPT !.pc = "fin", !.lanzada = TRUE,
                             !.resultado = "error"]
       ELSE IF unidad.i = Len(Programa(unidad.op).antes)
         THEN EnCuerpo(Ejecutada(unidad, Programa(unidad.op).antes[unidad.i]), 1)
       ELSE [Ejecutada(unidad, Programa(unidad.op).antes[unidad.i])
               EXCEPT !.i = @ + 1]
  /\ UNCHANGED <<varsServicio, varsSanitizador, procesos, cargador, lector>>

\* a step in the try: its exception goes to the catch of its batch, to the
\* catch of the operation, or to the finally
PasoCuerpo(falla) ==
  /\ unidad.pc = "cuerpo"
  /\ unidad' =
       IF ~falla
         THEN EnCuerpo(
                Ejecutada(unidad, Programa(unidad.op).cuerpo[unidad.i].i),
                unidad.i + 1)
       ELSE IF Programa(unidad.op).cuerpo[unidad.i].interno
         THEN [unidad EXCEPT !.pc = "catchLote"]
       ELSE IF Programa(unidad.op).revierte
         THEN [unidad EXCEPT !.pc = "catch", !.lanzada = TRUE]
       ELSE [unidad EXCEPT !.pc = "finally", !.lanzada = TRUE]
  /\ UNCHANGED <<varsServicio, varsSanitizador, procesos, cargador, lector>>

\* the catch of the operation: await queryRunner.rollbackTransaction(), then
\* the throw
Capturar ==
  /\ unidad.pc = "catch"
  /\ unidad' = [Revertida(unidad) EXCEPT !.pc = "finally"]
  /\ UNCHANGED <<varsServicio, varsSanitizador, procesos, cargador, lector>>

\* the catch of a batch: await queryRunner.rollbackTransaction(), whose
\* exception leaves the loop, then the next batch
CapturarLote(falla) ==
  /\ unidad.pc = "catchLote"
  /\ unidad' =
       IF falla
         THEN [Revertida(unidad) EXCEPT !.pc = "finally", !.lanzada = TRUE]
         ELSE EnCuerpo(Revertida(unidad),
                       TrasElLote(Programa(unidad.op).cuerpo, unidad.i))
  /\ UNCHANGED <<varsServicio, varsSanitizador, procesos, cargador, lector>>

\* finally: await queryRunner.release(), then the return or the throw
Finalmente ==
  /\ unidad.pc = "finally"
  /\ unidad' = [unidad EXCEPT
                  !.pc = "fin",
                  !.manejador = "liberado",
                  !.liberaciones = @ + 1,
                  !.resultado = IF unidad.lanzada THEN "error" ELSE "ok"]
  /\ UNCHANGED <<varsServicio, varsSanitizador, procesos, cargador, lector>>

\* the caller has the result or the exception
Terminar ==
  /\ unidad.pc = "fin"
  /\ unidad' = UnidadParada
  /\ UNCHANGED <<varsServicio, varsSanitizador, procesos, cargador, lector>>

NextUnidad ==
  \/ \E op \in Operaciones : Comenzar(op)
  \/ \E falla \in BOOLEAN : PasoAntes(falla)
  \/ \E falla \in BOOLEAN : PasoCuerpo(falla)
  \/ Capturar
  \/ \E falla \in BOOLEAN : CapturarLote(falla)
  \/ Finalmente
  \/ Terminar

\* ------------------------------------------------------------------------
\* The batch loader in its awaited steps: insertarDatosEnTabla for n records
\* of one column of whole numbers, into a new table
\* ------------------------------------------------------------------------
\* record counts of the loads: one record, a full batch, a record over it,
\* two batches and five records
TamanosDeCarga == {1, tamanoLote, tamanoLote + 1, 2 * tamanoLote + 5}

DatosDeCarga(n) ==
  [r \in 1..n |-> <<[c |-> ColCantidad, v |-> Num(r * Escala)]>>]

\* every record has the one key and a whole number under it: the
\* definitions create passes to the loader are those of the first record
EstructuraDeCarga == analizarEstructuraColumnas(DatosDeCarga(1))

CargadorParado ==
  [pc |-> "parado", n |-> 0, columnas |-> <<>>, i |-> 0,
   lote |-> [desde |-> 0, hasta |-> 0], k |-> 0, abiertas |-> 0,
   c |-> [tabla |-> SinTabla, totalRecords |-> 0, recordsFailed |-> 0],
   e |-> LoteAbierto(SinTabla), historia |-> <<>>, lanzada |-> FALSE]

\* datos.slice(i, i + tamanoLote + 1): the positions of a slice that takes
\* one record too many
RebanadaLarga(i, n) ==
  [desde |-> i + 1, hasta |-> Minimo(i + tamanoLote + 1, n)]

\* datos.slice(i, i + tamanoLote): the positions of the records of the batch
Rebanada(i, n) == [desde |-> i + 1, hasta |-> Minimo(i + tamanoLote, n)]

\* the batch and how its transaction ended
Anotado(g, fin) ==
  Append(g.historia, [desde |-> g.lote.desde, hasta |-> g.lote.hasta,
                      fin |-> fin])

\* the loader after the catch of a batch that swallows the error: the batch
\* counts for nothing and the loop goes on
LoteDescartado(g) ==
  [g EXCEPT !.c = FinDeLote(g.c, g.e, TRUE, 0),
            !.abiertas = 0,
            !.historia = Anotado(g, "rollback"),
            !.i = @ + tamanoLote,
            !.pc = "bucle"]

\* insertarDatosEnTabla(nombreTabla, columnas, datos) up to connect()
Cargar(n) ==
  /\ cargador.pc \in {"parado", "fin"}
  /\ cargador' =
       [CargadorParado EXCEPT
          !.pc = "bucle",
          !.n = n,
          !.columnas = columnasDeCarga(EstructuraDeCarga, DatosDeCarga(n)),
          !.c.tabla = TablaCreada(EstructuraDeCarga)]
  /\ UNCHANGED <<varsServicio, varsSanitizador, unidad, procesos, lector>>

\* the head of the loop: the slice, and startTransaction, whose exception
\* leaves the loop
IniciarLote(falla) ==
  /\ cargador.pc = "bucle"
  /\ cargador.i < cargador.n
  /\ cargador' =
       IF falla
         THEN [cargador EXCEPT
                 !.lote = Rebanada(cargador.i, cargador.n),
                 !.historia =
                   Append(@, [desde |-> Rebanada(cargador.i, cargador.n).desde,
                              hasta |-> Rebanada(cargador.i, cargador.n).hasta,
                              fin |-> "sin iniciar"]),
                 !.lanzada = TRUE,
                 !.pc = "finally"]
         ELSE [cargador EXCEPT
                 !.lote = Rebanada(cargador.i, cargador.n),
                 !.k = Rebanada(cargador.i, cargador.n).desde,
                 !.abiertas = @ + 1,
                 !.e = LoteAbierto(cargador.c.tabla),
                 !.pc = "lote"]
  /\ UNCHANGED <<varsServicio, varsSanitizador, unidad, procesos, lector>>

\* insertarLote: the turn of its loop for record k of the batch, and its
\* return after the last
InsertarRegistroDeLote(rechazado) ==
  /\ cargador.pc = "lote"
  /\ rechazado => cargador.k \in {cargador.lote.desde, cargador.lote.hasta}
  /\ cargador' =
       [cargador EXCEPT
          !.e = InsertarRegistro(@, cargador.columnas,
                                 DatosDeCarga(cargador.n)[cargador.k],
                                 rechazado),
          !.k = @ + 1,
          !.pc = IF cargador.k = cargador.lote.hasta THEN "commit" ELSE "lote"]
  /\ UNCHANGED <<varsServicio, varsSanitizador, unidad, procesos, lector>>

\* await queryRunner.commitTransaction(); totalRecords += lote.length
ConfirmarLote(falla) ==
  /\ cargador.pc = "commit"
  /\ cargador' =
       IF falla THEN [cargador EXCEPT !.pc = "catch"]
       ELSE [cargador EXCEPT
               !.c = FinDeLote(cargador.c, cargador.e, FALSE,
                               cargador.lote.hasta - cargador.lote.desde + 1),
               !.abiertas = 0,
               !.historia = Anotado(cargador, "commit"),
               !.i = @ + tamanoLote,
               !.pc = "bucle"]
  /\ UNCHANGED <<varsServicio, varsSanitizador, unidad, procesos, lector>>

\* the catch of the batch: await queryRunner.rollbackTransaction(), whose
\* exception leaves the loop with the transaction as it was
RevertirLote(falla) ==
  /\ cargador.pc = "catch"
  /\ cargador' =
       IF falla
         THEN [cargador EXCEPT !.historia = Anotado(cargador, "abierta"),
                               !.lanzada = TRUE,
                               !.pc = "finally"]
         ELSE LoteDescartado(cargador)
  /\ UNCHANGED <<varsServicio, varsSanitizador, unidad, procesos, lector>>

\* after the loop: if (totalRecords === 0) throw
Recontar ==
  /\ cargador.pc = "bucle"
  /\ cargador.i >= cargador.n
  /\ cargador' = [cargador EXCEPT !.lanzada = (cargador.c.totalRecords = 0),
                                  !.pc = "finally"]
  /\ UNCHANGED <<varsServicio, varsSanitizador, unidad, procesos, lector>>

\* finally: await queryRunner.release()
LiberarCargador ==
  /\ cargador.pc = "finally"
  /\ cargador' = [cargador EXCEPT !.pc = "fin"]
  /\ UNCHANGED <<varsServicio, varsSanitizador, unidad, procesos, lector>>

\* the store may reject the INSERT of the first record of a batch, and of
\* its last
NextCarga ==
  \/ \E n \in TamanosDeCarga : Cargar(n)
  \/ \E falla \in BOOLEAN : IniciarLote(falla)
  \/ \E rechazado \in BOOLEAN : InsertarRegistroDeLote(rechazado)
  \/ \E falla \in BOOLEAN : ConfirmarLote(falla)
  \/ \E falla \in BOOLEAN : RevertirLote(falla)
  \/ Recontar
  \/ LiberarCargador

\* ------------------------------------------------------------------------
\* The CSV reader: detectarSeparadorCSV on the text of a file
\* ------------------------------------------------------------------------
\* characters of the file that are read to detect the separator
LargoFragmento == 1000

separadores == <<",", ";", "\t", "|">>

\* the characters of a file under detection
LetrasDeCSV == {",", ";", "\t", "|", "a"}

\* the starts of the files under detection
CabezasDeCSV == UNION {[1..n -> LetrasDeCSV] : n \in 0..2}

\* files under detection: a start, then nothing or letters up to the end of
\* the fragment, then nothing or semicolons
TextosDeCSV ==
  {cabeza \o [i \in 1..n |-> "a"] \o cola :
     cabeza \in CabezasDeCSV,
     n \in {0, LargoFragmento - 2},
     cola \in {<<>>, <<";", ";", ";">>}}

\* the CSV reader at rest
LectorParado ==
  [fase |-> "parado", texto |-> <<>>, legible |-> TRUE, fragment |-> <<>>,
   i |-> 0, mejorSeparador |-> "", maxOcurrencias |-> 0, separador |-> ""]

\* s.slice(0, n)
Slice(s, n) == SubSeq(s, 1, IF Len(s) < n THEN Len(s) ELSE n)

\* (fragment.match(new RegExp(sep, 'g')) || []).length: the pattern '|' is
\* the alternation of two empty patterns, which matches the empty text at
\* every position of the fragment and at its end
ocurrencias(fragment, sep) ==
  IF sep = "|" THEN Len(fragment) + 1
  ELSE Cardinality({p \in DOMAIN fragment : fragment[p] = sep})

\* readFileSync and slice, and the catch when the file cannot be read
AbrirCSV(texto, legible) ==
  /\ lector.fase = "parado"
  /\ lector' =
       IF legible
         THEN [LectorParado EXCEPT !.fase = "contando", !.texto = texto,
                 !.fragment = Slice(texto, LargoFragmento), !.i = 1,
                 !.mejorSeparador = ","]
         ELSE [LectorParado EXCEPT !.fase = "devuelto", !.texto = texto,
                 !.legible = FALSE, !.separador = ","]
  /\ UNCHANGED <<varsServicio, varsSanitizador, unidad, procesos, cargador>>

\* one round of the loop over the candidates
ContarSeparador ==
  /\ lector.fase = "contando"
  /\ lector.i <= Len(separadores)
  /\ LET sep == separadores[lector.i]
         n   == ocurrencias(lector.fragment, sep)
     IN  lector' =
           IF n > lector.maxOcurrencias
             THEN [lector EXCEPT !.i = @ + 1, !.maxOcurrencias = n,
                                 !.mejorSeparador = sep]
             ELSE [lector EXCEPT !.i = @ + 1]
  /\ UNCHANGED <<varsServicio, varsSanitizador, unidad, procesos, cargador>>

\* return mejorSeparador
DevolverSeparador ==
  /\ lector.fase = "contando"
  /\ lector.i > Len(separadores)
  /\ lector' = [lector EXCEPT !.fase = "devuelto",
                              !.separador = lector.mejorSeparador]
  /\ UNCHANGED <<varsServicio, varsSanitizador, unidad, procesos, cargador>>

\* the reader is called again
OtroCSV ==
  /\ lector.fase = "devuelto"
  /\ lector' = LectorParado
  /\ UNCHANGED <<varsServicio, varsSanitizador, unidad, procesos, cargador>>

NextLector ==
  \/ \E texto \in TextosDeCSV : \E legible \in BOOLEAN :
       AbrirCSV(texto, legible)
  \/ ContarSeparador
  \/ DevolverSeparador
  \/ OtroCSV

\* ------------------------------------------------------------------------
\* Imports in progress at once: create in its awaited steps.  A step reads
\* and writes the store q = [imp, tab, arch] as it is at that moment; the
\* statements of a transaction take effect at its commit.
\* ------------------------------------------------------------------------
ProcesosParados ==
  [activos |-> FALSE, inicio |-> [imp |-> <<>>, tab |-> <<>>, arch |-> {}],
   p |-> <<>>]

\* create is called with the file that multer left at ruta
ProcesoNuevo(file, contenido, nombreTabla, usuarioId, ruta) ==
  [pc |-> "validar", file |-> file, contenido |-> contenido,
   nombreTabla |-> nombreTabla, usuarioId |-> usuarioId, ruta |-> ruta,
   previa |-> 0, id |-> 0, estructuraColumnas |-> <<>>, datos |-> <<>>,
   k |-> 0, estado |-> "", etapa |-> ""]

Va(q, pr) == [q |-> q, pr |-> pr]

\* an exception leaves create through handleExceptions
Lanza(q, pr, estado, etapa) ==
  Va(q, [pr EXCEPT !.pc = "fin", !.estado = estado, !.etapa = etapa])

\* `idx_${nombreTabla}_${columna.nombre}`
NombreIndice(nombreTabla, columna) ==
  <<"i", "d", "x", "_">> \o nombreTabla \o <<"_">> \o columna

\* the names of the indexes of the store
NombresDeIndices(tab) ==
  UNION {{NombreIndice(n, c) : c \in tab[n].indices} :
           n \in {m \in DOMAIN tab : tab[m].existe}}

\* the names of the relations of the store: a table and an index cannot
\* take the name of another
Relaciones(tab) ==
  {n \in DOMAIN tab : tab[n].existe} \cup NombresDeIndices(tab)

\* findOne({where: {nombreArchivo, nombreTabla, isActive: true}}); 0: none
findOne(imp, file, nombreTabla) ==
  LET existentes == {i \in DOMAIN imp :
                       /\ imp[i].nombreArchivo = file
                       /\ imp[i].nombreTabla = nombreTabla
                       /\ imp[i].isActive}
  IN  IF existentes = {} THEN 0 ELSE CHOOSE i \in existentes : TRUE

\* CREATE INDEX for column k: a failure is logged and the loop goes on
CrearIndice(tab, nombreTabla, columna) ==
  IF columna.tipo \in {"int", "date", "varchar"}
       /\ NombreIndice(nombreTabla, columna.nombre) \notin Relaciones(tab)
    THEN [tab EXCEPT ![nombreTabla].indices = @ \cup {columna.nombre}]
    ELSE tab

\* the step of create and of the methods it awaits at pr.pc
Paso(q, pr) ==
  CASE pr.pc = "validar" ->
         IF ~validarNombreTabla(pr.nombreTabla)
           THEN Lanza(q, pr, "BadRequest", "validar")
           ELSE Va(q, [pr EXCEPT
                         !.previa = findOne(q.imp, pr.file, pr.nombreTabla),
                         !.pc = IF findOne(q.imp, pr.file, pr.nombreTabla) = 0
                                  THEN "analizar" ELSE "removeFindOne"])
    [] pr.pc = "removeFindOne" ->
         IF ~q.imp[pr.previa].isActive
           THEN Lanza(q, pr, "NotFound", "remove")
           ELSE Va(q, [pr EXCEPT !.pc = "removeSave"])
    [] pr.pc = "removeSave" ->
         Va([q EXCEPT !.imp[pr.previa].isActive = FALSE],
            [pr EXCEPT !.pc = "removeUnlink"])
    [] pr.pc = "removeUnlink" ->
         Va([q EXCEPT !.arch = @ \ {q.imp[pr.previa].rutaArchivo}],
            [pr EXCEPT !.pc = "removeCommit"])
    [] pr.pc = "removeCommit" ->
         Va([q EXCEPT !.tab[q.imp[pr.previa].nombreTabla] = SinTabla],
            [pr EXCEPT !.pc = "analizar"])
    [] pr.pc = "analizar" ->
         IF \/ ~analizarArchivo(pr.file, pr.contenido).ok
            \/ analizarArchivo(pr.file, pr.contenido).estructuraColumnas = <<>>
           THEN Lanza(q, pr, "BadRequest", "analizar")
           ELSE Va(q, [pr EXCEPT
                         !.estructuraColumnas =
                           analizarArchivo(pr.file, pr.contenido).estructuraColumnas,
                         !.datos = analizarArchivo(pr.file, pr.contenido).datos,
                         !.pc = "save"])
    [] pr.pc = "save" ->
         Va([q EXCEPT !.imp =
               Append(@, [id |-> Len(q.imp) + 1, nombreArchivo |-> pr.file,
                          tipoArchivo |-> tipoArchivo(pr.file),
                          nombreTabla |-> pr.nombreTabla,
                          rutaArchivo |-> pr.ruta,
                          estructuraColumnas |-> pr.estructuraColumnas,
                          usuarioId |-> pr.usuarioId, totalRegistros |-> 0,
                          isActive |-> TRUE])],
            [pr EXCEPT !.id = Len(q.imp) + 1, !.pc = "crearTabla"])
    [] pr.pc = "crearTabla" ->
         IF \/ ~crearTablaDinamica(q.tab[pr.nombreTabla],
                                   pr.estructuraColumnas).ok
            \/ pr.nombreTabla \in NombresDeIndices(q.tab)
           THEN Lanza(q, pr, "InternalServerError", "tabla")
           ELSE Va([q EXCEPT !.tab[pr.nombreTabla] =
                      [TablaCreada(pr.estructuraColumnas) EXCEPT
                         !.indices = {}]],
                   [pr EXCEPT !.pc = "crearIndices", !.k = 1])
    [] pr.pc = "crearIndices" ->
         Va([q EXCEPT !.tab = CrearIndice(@, pr.nombreTabla,
                                          pr.estructuraColumnas[pr.k])],
            IF pr.k = Len(pr.estructuraColumnas)
              THEN [pr EXCEPT !.pc = "insertar"]
              ELSE [pr EXCEPT !.k = @ + 1])
    [] pr.pc = "insertar" ->
         LET carga == insertarDatosEnTabla(
                        q.tab[pr.nombreTabla], pr.estructuraColumnas,
                        sanitizarValoresLargos(pr.datos,
                                               pr.estructuraColumnas),
                        {}, {})
         IN  IF ~carga.ok
               THEN Lanza([q EXCEPT !.tab[pr.nombreTabla] = carga.tabla], pr,
                          "InternalServerError", "carga")
               ELSE Va([q EXCEPT !.tab[pr.nombreTabla] = carga.tabla],
                       [pr EXCEPT !.pc = "saveTotal"])
    [] pr.pc = "saveTotal" ->
         Va([q EXCEPT !.imp[pr.id].totalRegistros = Len(pr.datos)],
            [pr EXCEPT !.pc = "fin", !.estado = "ok", !.etapa = "fin"])
    [] OTHER -> Va(q, pr)

\* create with no other request between its steps
RECURSIVE Correr(_, _)
Correr(q, pr) ==
  IF pr.pc = "fin" THEN Va(q, pr)
  ELSE Correr(Paso(q, pr).q, Paso(q, pr).pr)

\* two uploads arrive and create is called for each
Lanzar(limite, uno, nombreUno, otro, nombreOtro, usuarioId) ==
  /\ ~procesos.activos
  /\ subidas + 2 <= limite
  /\ nombreUno # nombreOtro
  /\ archivos' = archivos \cup {subidas + 1, subidas + 2}
  /\ subidas' = subidas + 2
  /\ procesos' =
       [activos |-> TRUE,
        inicio |-> [imp |-> importaciones, tab |-> tablas,
                    arch |-> archivos \cup {subidas + 1, subidas + 2}],
        p |-> <<ProcesoNuevo(uno.file, uno.contenido, nombreUno, usuarioId,
                             subidas + 1),
                ProcesoNuevo(otro.file, otro.contenido, nombreOtro,
                             usuarioId, subidas + 2)>>]
  /\ UNCHANGED <<importaciones, tablas, ultimo, varsSanitizador, unidad, cargador, lector>>

\* the next awaited step of import i
Avanzar(i) ==
  /\ procesos.activos
  /\ procesos.p[i].pc # "fin"
  /\ LET q == [imp |-> importaciones, tab |-> tablas, arch |-> archivos]
     IN  /\ importaciones' = Paso(q, procesos.p[i]).q.imp
         /\ tablas' = Paso(q, procesos.p[i]).q.tab
         /\ archivos' = Paso(q, procesos.p[i]).q.arch
         /\ procesos' = [procesos EXCEPT !.p[i] = Paso(q, @).pr]
  /\ UNCHANGED <<subidas, ultimo, varsSanitizador, unidad, cargador, lector>>

\* both callers have their responses
Recoger ==
  /\ procesos.activos
  /\ \A i \in DOMAIN procesos.p : procesos.p[i].pc = "fin"
  /\ procesos' = ProcesosParados
  /\ UNCHANGED <<varsServicio, varsSanitizador, unidad, cargador, lector>>

\* ------------------------------------------------------------------------
\* Specification of the service
\* ------------------------------------------------------------------------
InitSanitizadorParado ==
  /\ entrada = Nulo
  /\ tipoEntrada = "text"
  /\ salida = SinSalida
  /\ fase = "parado"

Init ==
  /\ InitServicio
  /\ InitSanitizadorParado
  /\ unidad = UnidadParada
  /\ procesos = ProcesosParados
  /\ cargador = CargadorParado
  /\ lector = LectorParado

\* the uploads the environment offers; conFallos lets the store reject
\* records and lose batches
Importar(limite, ofrecidos, nombres, conFallos) ==
  \E carga \in ofrecidos, nombreTabla \in nombres, usuarioId \in Usuarios :
    \E rechazados \in (IF conFallos THEN SUBSET (1..Len(carga.contenido))
                       ELSE {{}}),
       perdidos \in (IF conFallos
                       THEN SUBSET (1..NumeroDeLotes(carga.contenido))
                       ELSE {{}}),
       previa \in 0..Len(importaciones) :
      create(limite, carga.file, nombreTabla, usuarioId, carga.contenido,
             rechazados, perdidos, previa)

Quitar == \E id \in 1..(Len(importaciones) + 1) : remove(id)

Actualizar ==
  \E id \in 1..(Len(importaciones) + 1),
     nombreTabla \in {<<>>, TablaUno, TablaDos},
     usuarioId \in {""} \cup Usuarios :
    update(id, nombreTabla, usuarioId)

Agregar ==
  \E nombreTabla \in {TablaUno, TablaDos}, datos \in DatosFila :
    agregarRegistro(nombreTabla, datos)

Modificar ==
  \E nombreTabla \in {TablaUno, TablaDos}, id \in 1..MaxSerial,
     datos \in DatosFila :
    actualizarRegistro(nombreTabla, id, datos)

Eliminar ==
  \E nombreTabla \in {TablaUno, TablaDos}, id \in 1..MaxSerial :
    eliminarRegistro(nombreTabla, id)

\* the loader: imports whose records the store may reject and whose batches
\* it may lose
Next ==
  \/ Importar(MaxSubidas, {CargaVacia, CargaCsv, CargaXlsx, CargaConId},
              {TablaUno, TablaReservada}, TRUE)
  \/ Quitar

Spec == Init /\ [][Next]_vars

\* the ledger: imports of two files into two tables, and the ledger requests
NextLibro ==
  \/ Importar(MaxSubidas, {CargaCsv, CargaXlsx}, {TablaUno, TablaDos}, FALSE)
  \/ Quitar
  \/ Actualizar

SpecLibro == Init /\ [][NextLibro]_vars

\* repeated imports of one file, and the ledger requests
NextReimportar ==
  \/ Importar(MaxReimportes, {CargaXlsx}, {TablaUno, TablaDos}, FALSE)
  \/ Quitar
  \/ Actualizar

SpecReimportar == Init /\ [][NextReimportar]_vars

\* one import and the row requests on its table
NextFilas ==
  \/ Importar(1, {CargaCsv, CargaXlsx}, {TablaUno}, FALSE)
  \/ Agregar
  \/ Modificar
  \/ Eliminar

SpecFilas == Init /\ [][NextFilas]_vars

\* one import and the requests of the table query service
NextLectura ==
  \/ Importar(1, {CargaXlsx, CargaVeinticinco}, {TablaUno}, FALSE)
  \/ \E nombreTabla \in {TablaUno, TablaDos}, page \in 1..MaxPagina,
        limit \in Limites, filtros \in FiltrosOfrecidos :
       obtenerDatosTabla(nombreTabla, page, limit, filtros)
  \/ \E nombreTabla \in {TablaUno, TablaDos} : exportarExcel(nombreTabla)
  \/ \E nombreTabla \in {TablaUno, TablaDos} : obtenerEstadisticas(nombreTabla)
  \/ Agregar
  \/ Modificar
  \/ Eliminar

SpecLectura == Init /\ [][NextLectura]_vars

\* imports under names the validation accepts and rejects
NextValidar ==
  \/ Importar(MaxSubidas, {CargaCsv, CargaXlsx},
              {TablaUno, TablaDos, TablaReservada, TablaMayuscula,
               TablaNumeral, <<>>},
              FALSE)
  \/ Quitar

SpecValidar == Init /\ [][NextValidar]_vars

\* the units of work of the operations, one at a time
SpecUnidad == Init /\ [][NextUnidad]_vars

\* two imports at once into tables of different names, in rounds
NextParalelo ==
  \/ \E uno \in {CargaAB, CargaB}, otro \in {CargaAB, CargaB}, nombreUno \in {TablaUno, TablaUnoA, TablaDos}, nombreOtro \in {TablaUno, TablaUnoA, TablaDos}, usuarioId \in Usuarios : Lanzar(2 * MaxRondas, uno, nombreUno, otro, nombreOtro, usuarioId)
  \/ \E i \in 1..2 : Avanzar(i)
  \/ Recoger

SpecParalelo == Init /\ [][NextParalelo]_vars

\* the loader, batch by batch
SpecCarga == Init /\ [][NextCarga]_vars

\* the CSV reader on every file under detection
SpecLector == Init /\ [][NextLector]_vars

\* one import of a file under analysis
NextAnalisis ==
  \/ Importar(1, CargasDeAnalisis, {TablaUno}, FALSE)
  \/ Quitar

SpecAnalisis == Init /\ [][NextAnalisis]_vars

\* ------------------------------------------------------------------------
\* Specification of the sanitizer: a raw value and an inferred type, then
\* the value the bulk loader binds, the value a row request binds, and the
\* bulk value sanitized again
\* ------------------------------------------------------------------------
\* the types analizarEstructuraColumnas infers
TiposInferidos == {"int", "decimal", "text", "boolean", "date"}

ValoresCrudos ==
  { Nulo,
    Str(<<>>), Str(<<"a", "b", "c">>), Str(<<"1", "2", "a", "b", "c">>),
    Str(<<"1", ",", "2", "3", "4">>), Str(<<"1", "2", ".", "5">>),
    Str(<<"-", "3", ".", "7", "5">>), Str(<<"$", " ", "1", ",", "5">>),
    Str(<<"-">>), Str(<<"7">>), Str(<<"0">>), Str(<<"1">>),
    Str(<<"y", "e", "s">>), Str(<<"N", "O">>), Str(<<"t", "r", "u", "e">>),
    Str(FechaValida), Str(FechaInvalida),
    Num(0), Num(5 * Escala), Num(250), Num(0 - 150),
    Bool(TRUE), Bool(FALSE),
    Fecha(20240115),
    Obj(<<"{", "}">>), Ciclico }

InitSanitizador ==
  /\ InitServicio
  /\ entrada \in ValoresCrudos
  /\ tipoEntrada \in TiposInferidos
  /\ salida = SinSalida
  /\ fase = "crudo"
  /\ unidad = UnidadParada
  /\ procesos = ProcesosParados
  /\ cargador = CargadorParado
  /\ lector = LectorParado

\* the type tag a row request reads from the catalog for a column created
\* with inferred type tipo
tipoIntrospectado(tipo) ==
  ColumnaDe(
    obtenerEstructuraTabla(
      TablaCreada(<<[nombre |-> ColOtra, tipo |-> tipo, esNullable |-> TRUE]>>)),
    ColOtra).tipo

\* insertarLote: the sanitizer with the inferred type
SanearCarga ==
  /\ fase = "crudo"
  /\ salida' = [salida EXCEPT
                  !.carga = sanitizarValorSegunTipo(entrada, tipoEntrada)]
  /\ fase' = "carga"
  /\ UNCHANGED <<varsServicio, entrada, tipoEntrada, unidad, procesos, cargador, lector>>

\* agregarRegistro, actualizarRegistro: the sanitizer with the catalog's tag
SanearFila ==
  /\ fase = "carga"
  /\ salida' = [salida EXCEPT
                  !.fila = sanitizarValorSegunTipo(
                             entrada, tipoIntrospectado(tipoEntrada))]
  /\ fase' = "fila"
  /\ UNCHANGED <<varsServicio, entrada, tipoEntrada, unidad, procesos, cargador, lector>>

\* the sanitizer on its own result
SanearOtraVez ==
  /\ fase = "fila"
  /\ salida' = [salida EXCEPT
                  !.otraVez = sanitizarValorSegunTipo(salida.carga, tipoEntrada)]
  /\ fase' = "otraVez"
  /\ UNCHANGED <<varsServicio, entrada, tipoEntrada, unidad, procesos, cargador, lector>>

NextSanitizador == SanearCarga \/ SanearFila \/ SanearOtraVez

SpecSanitizador == InitSanitizador /\ [][NextSanitizador]_vars

\* ------------------------------------------------------------------------
\* Properties
\* ------------------------------------------------------------------------
\* the last request was a create that reached the loader
CargaHecha == ultimo.op = "create" /\ ultimo.etapa \in {"carga", "fin"}

\* the rows of the table the last request named
FilasDelUltimo == tablas[ultimo.tabla].filas

\* C1: when k of the N records of a load fail at their INSERT, k < N, and no
\* batch is lost, the load returns without error and the table holds
\* exactly N - k rows
ContencionDeFallos ==
  (CargaHecha /\ ultimo.lotesPerdidos = 0 /\ ultimo.fallidos < ultimo.enviados)
    => /\ ultimo.estado = "ok"
       /\ Len(FilasDelUltimo) = ultimo.enviados - ultimo.fallidos

\* C2: a load of a non-empty record list that leaves no row in the table
\* fails with InternalServerErrorException
CargaSinFilasFalla ==
  (CargaHecha /\ ultimo.enviados > 0 /\ Len(FilasDelUltimo) = 0)
    => ultimo.estado = "InternalServerError"

\* C3: when an import inserts fewer rows than were submitted, the loader's
\* count, the count create returns and the count stored in the import all
\* equal the number of rows in the table
FaltanteInformado ==
  (CargaHecha /\ ultimo.estado = "ok" /\ Len(FilasDelUltimo) < ultimo.enviados)
    => /\ ultimo.totalRecords = Len(FilasDelUltimo)
       /\ ultimo.totalRegistros = Len(FilasDelUltimo)
       /\ importaciones[ultimo.id].totalRegistros = Len(FilasDelUltimo)

\* the active imports of a file into a table, in a ledger
ActivasDe(imp, file, nombreTabla) ==
  {i \in DOMAIN imp :
     /\ imp[i].isActive
     /\ imp[i].nombreArchivo = file
     /\ imp[i].nombreTabla = nombreTabla}

\* C4: when create succeeds twice in a row for the same file and table,
\* exactly one import of the pair is active, the first import is gone and
\* the table holds only the rows of the second
ReimportacionIdempotente ==
  [][(/\ ultimo.op = "create" /\ ultimo.estado = "ok"
      /\ ultimo'.op = "create" /\ ultimo'.estado = "ok"
      /\ subidas' = subidas + 1
      /\ ultimo'.archivo = ultimo.archivo
      /\ ultimo'.tabla = ultimo.tabla)
       => /\ Cardinality(ActivasDe(importaciones', ultimo'.archivo,
                                   ultimo'.tabla)) = 1
          /\ ~importaciones'[ultimo.id].isActive
          /\ Len(tablas'[ultimo'.tabla].filas) = ultimo'.enviados]_vars

\* C5: at most one active import per file and table
UnaActivaPorPar ==
  \A i, j \in DOMAIN importaciones :
    (/\ i # j
     /\ importaciones[i].isActive /\ importaciones[j].isActive
     /\ importaciones[i].nombreArchivo = importaciones[j].nombreArchivo)
      => importaciones[i].nombreTabla # importaciones[j].nombreTabla

\* C6: no two active imports name the same table
UnDuenoPorTabla ==
  \A i, j \in DOMAIN importaciones :
    (i # j /\ importaciones[i].isActive /\ importaciones[j].isActive)
      => importaciones[i].nombreTabla # importaciones[j].nombreTabla

\* the columns a table has when it matches the recorded definitions
ColumnasRegistradas(estructuraColumnas) ==
  [c \in DOMAIN estructuraColumnas |->
     [nombre |-> estructuraColumnas[c].nombre,
      tipoSQL |-> mapearTipoAPostgres(estructuraColumnas[c].tipo)]]

ColumnasVivas(t) ==
  [c \in DOMAIN t.columnas |->
     [nombre |-> t.columnas[c].nombre, tipoSQL |-> t.columnas[c].tipoSQL]]

\* C7: the table named by an active import whose create succeeded (it
\* recorded its row count) exists, and its columns besides the key are the
\* recorded definitions with their mapped storage types
TablaConformeAlRegistro ==
  \A i \in DOMAIN importaciones :
    (importaciones[i].isActive /\ importaciones[i].totalRegistros > 0)
      => /\ importaciones[i].nombreTabla \in DOMAIN tablas
         /\ tablas[importaciones[i].nombreTabla].existe
         /\ ColumnasVivas(tablas[importaciones[i].nombreTabla])
              = ColumnasRegistradas(importaciones[i].estructuraColumnas)

\* a text that is no calendar date
TextoSinFecha(v) == v.k = "string" /\ ~NuevaFecha(v.s)[1]

\* C8: agregarRegistro with a text that is no calendar date for a column
\* created with inferred type date binds null for it, succeeds and inserts
\* the row with that field null
FechaInvalidaSeInsertaNula ==
  (/\ ultimo.op = "agregarRegistro"
   /\ ultimo.estado # "NotFound"
   /\ TieneColumna(tablas[ultimo.tabla].columnas, ColFecha)
   /\ ColumnaDe(tablas[ultimo.tabla].columnas, ColFecha).tipoSQL
        = mapearTipoAPostgres("date")
   /\ TieneClave(ultimo.datos, ColFecha)
   /\ TextoSinFecha(Leer(ultimo.datos, ColFecha)))
    => /\ ultimo.estado = "ok"
       /\ TieneClave(ultimo.parametros, ColFecha)
       /\ EsNulo(Leer(ultimo.parametros, ColFecha))
       /\ \E f \in DOMAIN FilasDelUltimo : FilasDelUltimo[f].id = ultimo.id

\* C9: the value a row request binds for a column equals the value the
\* bulk loader binds for the same raw value
CoercionIdentica ==
  fase \in {"fila", "otraVez"} => salida.fila = salida.carga

\* C10: the sanitizer returns a value or null for every raw value, and a
\* result that is not null is unchanged by sanitizing it again
SanearEsIdempotenteYTotal ==
  /\ fase # "crudo"
       => salida.carga.k \in {"null", "string", "number", "boolean", "Date"}
  /\ (fase = "otraVez" /\ ~EsNulo(salida.carga))
       => salida.otraVez = salida.carga

\* C10, its case: a text was coerced to a date and the date sanitized again
TextoHechoFechaYRepetido ==
  /\ fase = "otraVez"
  /\ entrada.k = "string"
  /\ salida.carga.k = "Date"
  /\ salida.otraVez = salida.carga

\* the table the last request named
TablaDelUltimo == tablas[ultimo.tabla]

\* the last request was a read that found its table
LecturaEnTabla ==
  ultimo.op = "obtenerDatosTabla" /\ ultimo.estado # "NotFound"

\* the fields of the last request's filters that name a column of the
\* table's structure, in the order of the request
FiltrosValidos ==
  SelectSeq(ultimo.filtros,
            LAMBDA e : TieneColumna(obtenerEstructuraTabla(TablaDelUltimo), e.c))

\* C11: in a read, a filter key that is no column of the table's structure is
\* in no condition of the WHERE clause and causes no error; without a valid
\* key there is no WHERE clause; the placeholders are $1..$n in order, the
\* i-th for the i-th valid key, and the n parameters are the values of the
\* valid keys in that order
FiltrosSeguros ==
  LecturaEnTabla =>
    /\ \A i \in DOMAIN ultimo.condiciones :
         TieneColumna(obtenerEstructuraTabla(TablaDelUltimo),
                      ultimo.condiciones[i].campo)
    /\ ultimo.whereClause <=> FiltrosValidos # <<>>
    /\ ultimo.whereClause <=> ultimo.condiciones # <<>>
    /\ Len(ultimo.condiciones) = Len(FiltrosValidos)
    /\ Len(ultimo.valores) = Len(FiltrosValidos)
    /\ \A i \in DOMAIN FiltrosValidos :
         /\ ultimo.condiciones[i].campo = FiltrosValidos[i].c
         /\ ultimo.condiciones[i].marcador = i
         /\ ultimo.valores[i] = FiltrosValidos[i].v
    /\ (\A i \in DOMAIN FiltrosValidos :
          AceptaValor(FiltrosValidos[i].v,
                      TipoSQLDe(TablaDelUltimo, FiltrosValidos[i].c)))
         => ultimo.estado = "ok"

\* C11, its case: a read whose first filter key is no column and whose
\* second is one returned rows with the single condition on $1
ClaveDesconocidaDescartada ==
  /\ LecturaEnTabla
  /\ ultimo.estado = "ok"
  /\ Len(ultimo.filtros) = 2
  /\ ~TieneColumna(obtenerEstructuraTabla(TablaDelUltimo), ultimo.filtros[1].c)
  /\ ultimo.condiciones = <<[campo |-> ultimo.filtros[2].c, marcador |-> 1]>>
  /\ ultimo.totalRegistros > 0

\* the rows of the last request's table that satisfy its valid filters
FilasCoincidentes ==
  {f \in DOMAIN TablaDelUltimo.filas :
     \A i \in DOMAIN FiltrosValidos :
       /\ NoNulo(FiltrosValidos[i].v)
       /\ Celda(TablaDelUltimo, TablaDelUltimo.filas[f], FiltrosValidos[i].c)
            = ValorAlmacenado(FiltrosValidos[i].v,
                              TipoSQLDe(TablaDelUltimo, FiltrosValidos[i].c))}

\* the least n with n * d >= a
Techo(a, d) == CHOOSE n \in 0..a : n * d >= a /\ (n = 0 \/ (n - 1) * d < a)

\* rows left from the first row of a page on, none when the page starts
\* past the end
RestoDesde(total, page, limit) ==
  IF total - (page - 1) * limit > 0 THEN total - (page - 1) * limit ELSE 0

\* C14: a read of page >= 1 with limit >= 1 over a table with T rows matching
\* the filters returns totalRows = T, totalPages = ceil(T / limit) and
\* min(limit, max(0, T - (page - 1) * limit)) rows
PaginacionExacta ==
  (/\ ultimo.op = "obtenerDatosTabla" /\ ultimo.estado = "ok"
   /\ ultimo.page >= 1 /\ ultimo.limit >= 1)
    => /\ ultimo.totalRegistros = Cardinality(FilasCoincidentes)
       /\ ultimo.totalPages = Techo(Cardinality(FilasCoincidentes), ultimo.limit)
       /\ Len(ultimo.leidas)
            = Minimo(ultimo.limit,
                     RestoDesde(Cardinality(FilasCoincidentes), ultimo.page,
                                ultimo.limit))

\* C14, its case: page 2 with limit 10 of a table of 25 rows returned 10 rows
\* and 3 pages
PaginaDosDeVeinticinco ==
  /\ ultimo.op = "obtenerDatosTabla" /\ ultimo.estado = "ok"
  /\ ultimo.page = 2 /\ ultimo.limit = 10
  /\ Len(TablaDelUltimo.filas) = 25
  /\ ultimo.totalRegistros = 25
  /\ Len(ultimo.leidas) = 10
  /\ ultimo.totalPages = 3

\* the requests of the table query service
OperacionesDeTabla ==
  {"obtenerDatosTabla", "agregarRegistro", "actualizarRegistro",
   "eliminarRegistro", "obtenerEstadisticas", "exportarExcel"}

\* C18: a request of the table query service that names a table that does
\* not exist fails with NotFoundException and runs no statement on the table
TablaAusenteEsNotFound ==
  (ultimo.op \in OperacionesDeTabla /\ ~verificarTablaExiste(ultimo.tabla))
    => ultimo.estado = "NotFound" /\ ultimo.consultas = 0

\* the definitions the import of the last request recorded
EstructuraDelUltimo == importaciones[ultimo.id].estructuraColumnas

\* C12: the import of a file whose single header is 'Monto Total' and whose
\* rows are the texts '100', '200.50' and 'NULL' succeeds with the single
\* column monto_total of inferred type decimal, and its table has exactly 2
\* rows with a value in that column
EscenarioA ==
  (ultimo.op = "create" /\ ultimo.datos = ContenidoEscenarioA)
    => /\ ultimo.estado = "ok"
       /\ EstructuraDelUltimo
            = <<[nombre |-> ColMontoNorm, tipo |-> "decimal",
                 esNullable |-> TRUE]>>
       /\ Cardinality({f \in DOMAIN TablaDelUltimo.filas :
                         NoNulo(Celda(TablaDelUltimo, TablaDelUltimo.filas[f],
                                      ColMontoNorm))}) = 2

\* a number, or a text that is the literal of a number
EsValorNumerico(v) ==
  \/ v.k = "number"
  \/ v.k = "string" /\ v.s # <<>> /\ LimpiarNumero(v.s) = v.s /\ EsNumber(v.s)

\* the last request imported a file of one column, and the import was saved
ImportadaUnaColumna ==
  /\ ultimo.op = "create"
  /\ ultimo.id \in DOMAIN importaciones
  /\ \A r \in DOMAIN ultimo.datos : Len(ultimo.datos[r]) = 1

\* C13: a column whose values mix numbers or number literals with at least
\* one value that is neither is inferred as text, wherever that value is
MezclaEsTexto ==
  (/\ ImportadaUnaColumna
   /\ \E r \in DOMAIN ultimo.datos : EsValorNumerico(ultimo.datos[r][1].v)
   /\ \E r \in DOMAIN ultimo.datos :
        NoNulo(ultimo.datos[r][1].v) /\ ~EsValorNumerico(ultimo.datos[r][1].v))
    => /\ Len(EstructuraDelUltimo) = 1
       /\ EstructuraDelUltimo[1].tipo = "text"

\* lowercase and matching [a-z0-9_]+
EsIdentificadorSaneado(nombre) ==
  /\ nombre # <<>>
  /\ \A i \in DOMAIN nombre :
       nombre[i] \in Rango(Minusculas) \/ EsDigito(nombre[i]) \/ nombre[i] = "_"

\* C19: the keys of the records an import analysed, which are the names of
\* the definitions it recorded, are sanitized identifiers
ClavesSaneadas ==
  (ultimo.op = "create" /\ ultimo.id \in DOMAIN importaciones)
    => \A c \in DOMAIN EstructuraDelUltimo :
         EsIdentificadorSaneado(EstructuraDelUltimo[c].nombre)

\* matches ^[a-z][a-z0-9_]*$ and is no reserved word
NombreAdmitido(nombreTabla) ==
  /\ EsIdentificadorSaneado(nombreTabla)
  /\ nombreTabla[1] \in Rango(Minusculas)
  /\ nombreTabla \notin palabrasReservadas

\* C15: create with a table name that does not match ^[a-z][a-z0-9_]*$ or
\* is a reserved word fails with BadRequestException, and it removes and
\* creates no import, drops and creates no table and deletes no file
PuertaDeValidacion ==
  [][(/\ ultimo'.op = "create" /\ subidas' = subidas + 1
      /\ ~NombreAdmitido(ultimo'.tabla))
       => /\ ultimo'.estado = "BadRequest"
          /\ importaciones' = importaciones
          /\ tablas' = tablas
          /\ archivos \subseteq archivos']_vars

\* C15, its case: with an import active and its table in place, a create
\* under the name select was refused at the validation
ReservadaRechazada ==
  /\ ultimo.op = "create"
  /\ ultimo.tabla = TablaReservada
  /\ ultimo.estado = "BadRequest" /\ ultimo.etapa = "validar"
  /\ \E i \in DOMAIN importaciones : importaciones[i].isActive
  /\ tablas[TablaUno].existe


\* the operations that write in one transaction
OperacionesDeEscritura ==
  {"crearTablaDinamica", "agregarRegistro", "actualizarRegistro",
   "eliminarRegistro"}

\* the unit of work has ended and the caller has its outcome
UnidadAcabada == unidad.pc = "fin"

\* C16: a write operation whose transaction began ends with it committed
\* exactly when it returns success and rolled back exactly when it returns
\* an error, no rollback is issued after the commit, and no change of a
\* failed operation stays visible
TransaccionSegunResultado ==
  (UnidadAcabada /\ unidad.op \in OperacionesDeEscritura
     /\ unidad.tx # "ninguna")
    => /\ (unidad.tx = "confirmada") <=> (unidad.resultado = "ok")
       /\ (unidad.tx = "revertida") <=> (unidad.resultado = "error")
       /\ ~unidad.revertidaTrasConfirmar
       /\ unidad.resultado = "error" => unidad.cambio # "visible"

\* C17: when an operation returns or throws, the handle it connected has
\* been released, and released once
ManejadorLiberado ==
  UnidadAcabada
    => /\ unidad.manejador # "conectado"
       /\ unidad.liberaciones <= 1
       /\ unidad.manejador = "liberado" <=> unidad.liberaciones = 1


\* the imports at once have all ended
TodosAcabados ==
  procesos.activos /\ \A i \in DOMAIN procesos.p : procesos.p[i].pc = "fin"

\* the same create from the store the imports began in, with no other
\* request between its steps
Solo(pr) ==
  Correr(procesos.inicio,
         ProcesoNuevo(pr.file, pr.contenido, pr.nombreTabla, pr.usuarioId,
                      pr.ruta))

\* the import record but for the id the store gave it
RegistroDe(imp, id) ==
  IF id = 0 THEN [id |-> 0] ELSE [imp[id] EXCEPT !.id = 0]

ComoSolo(pr, s) ==
  /\ tablas[pr.nombreTabla] = s.q.tab[pr.nombreTabla]
  /\ RegistroDe(importaciones, pr.id) = RegistroDe(s.q.imp, s.pr.id)
  /\ pr.estado = s.pr.estado

\* C20: when two imports into tables of different names have ended, however
\* their steps interleaved, each has the table (rows, columns, indexes), the
\* import record and the outcome it has when it runs alone from the same
\* store
ImportesIndependientes ==
  TodosAcabados
    => \A i \in DOMAIN procesos.p : ComoSolo(procesos.p[i], Solo(procesos.p[i]))


CamposNombrados(t, datos) ==
  {datos[k].c : k \in {m \in DOMAIN datos :
                         /\ TieneColumna(t.columnas, datos[m].c)
                         /\ datos[m].c # ColId}}

\* table u is table t but for the columns campos of the row with that id
SoloCambia(t, u, id, campos) ==
  /\ u.existe
  /\ u.columnas = t.columnas
  /\ Len(u.filas) = Len(t.filas)
  /\ \A i \in DOMAIN t.filas :
       /\ u.filas[i].id = t.filas[i].id
       /\ \A j \in DOMAIN t.columnas :
            (t.filas[i].id # id \/ t.columnas[j].nombre \notin campos)
              => u.filas[i].vals[j] = t.filas[i].vals[j]

\* what actualizarRegistro answered (res) and left (u) for the table t
ContratoActualizar(t, u, res) ==
  IF ~ExisteFila(t, res.id)
    THEN res.estado = "NotFound" /\ u = t
  ELSE IF CamposNombrados(t, res.datos) = {}
    THEN res.estado = "BadRequest" /\ u = t
  ELSE /\ res.estado \in {"ok", "NotFound", "InternalServerError"}
       /\ res.estado # "ok" => u = t
       /\ res.estado = "ok"
            => /\ SoloCambia(t, u, res.id, CamposNombrados(t, res.datos))
               /\ res.consultas = 2

UnaFilaMas(t, u, id, campos) ==
  /\ u.existe
  /\ u.columnas = t.columnas
  /\ Len(u.filas) = Len(t.filas) + 1
  /\ \A i \in DOMAIN t.filas : u.filas[i] = t.filas[i]
  /\ u.filas[Len(u.filas)].id = id
  /\ id = t.serial
  /\ ~ExisteFila(t, id)
  /\ \A j \in DOMAIN t.columnas :
       t.columnas[j].nombre \notin campos
         => EsNulo(u.filas[Len(u.filas)].vals[j])

\* what agregarRegistro answered (res) and left (u) for the table t
ContratoAgregar(t, u, res) ==
  IF CamposNombrados(t, res.datos) = {}
    THEN res.estado = "BadRequest" /\ u = t
    ELSE /\ res.estado = "ok"
         /\ UnaFilaMas(t, u, res.id, CamposNombrados(t, res.datos))

\* C23: agregarRegistro on an existing table discards the field id and the
\* fields that name no column; with no field left it fails with a validation
\* error and changes no row; otherwise it adds exactly one row, under a
\* generated id that it returns, and changes no other row
AgregarSegunContrato ==
  [][(ultimo'.op = "agregarRegistro" /\ tablas[ultimo'.tabla].existe)
       => ContratoAgregar(tablas[ultimo'.tabla], tablas'[ultimo'.tabla],
                          ultimo')]_vars

\* batch b of n records: a hundred records from the end of batch b - 1, or
\* what is left of them
LoteEsperado(b, n) ==
  [desde |-> (b - 1) * 100 + 1,
   hasta |-> IF b * 100 < n THEN b * 100 ELSE n]

\* the batches so far are the consecutive hundreds of the records, the batch
\* in progress is the next one, a loop that ended has taken every record,
\* the rows are in the order of the records, and one transaction at most is
\* open
LotesConsecutivos ==
  /\ \A b \in DOMAIN cargador.historia :
       /\ cargador.historia[b].desde = LoteEsperado(b, cargador.n).desde
       /\ cargador.historia[b].hasta = LoteEsperado(b, cargador.n).hasta
  /\ cargador.pc \in {"lote", "commit", "catch"}
       => /\ cargador.lote = LoteEsperado(Len(cargador.historia) + 1, cargador.n)
          /\ cargador.abiertas = 1
  /\ (cargador.pc \in {"finally", "fin"} /\ cargador.i >= cargador.n)
       => /\ cargador.historia # <<>>
          /\ cargador.historia[Len(cargador.historia)].hasta = cargador.n
  /\ \A j \in 1..(Len(cargador.c.tabla.filas) - 1) :
       cargador.c.tabla.filas[j].vals[1].n
         < cargador.c.tabla.filas[j + 1].vals[1].n
  /\ cargador.abiertas <= 1

\* a transaction begins when none is open and every batch before has been
\* committed or rolled back
UnLoteTrasOtro ==
  cargador'.abiertas > cargador.abiertas
    => /\ cargador.abiertas = 0
       /\ \A b \in DOMAIN cargador.historia :
            cargador.historia[b].fin \in {"commit", "rollback"}

\* C24: the loader takes the records in consecutive batches of exactly 100,
\* the last one possibly smaller, each record in one batch and in input
\* order, and the transaction of a batch is committed or rolled back before
\* the next begins, so that one transaction at most is open
LotesDeCienEnSerie == []LotesConsecutivos /\ [][UnLoteTrasOtro]_vars

\* a load of two hundred and five records ended after three batches, the
\* last one of five records
TresLotesCargados ==
  /\ cargador.pc = "fin"
  /\ cargador.n = 205
  /\ Len(cargador.historia) = 3
  /\ cargador.historia[2] = [desde |-> 101, hasta |-> 200, fin |-> "commit"]
  /\ cargador.historia[3] = [desde |-> 201, hasta |-> 205, fin |-> "commit"]
  /\ Len(cargador.c.tabla.filas) = 205

\* the catch of a batch returned: the batch is rolled back, no record of it
\* is counted, and the committed rows are those of the batches before
LoteRevertidoEntero ==
  (cargador.pc = "catch" /\ cargador'.pc # "catch")
    => /\ cargador'.historia = Anotado(cargador, "rollback")
       /\ cargador'.c.totalRecords = cargador.c.totalRecords
       /\ cargador'.c.tabla.filas = cargador.c.tabla.filas

\* after a batch whose commit threw, the loader went on to every batch that
\* follows it, unless the error of a later batch ended the load
LotesSiguientesIntentados ==
  cargador.pc = "fin"
    => \A b \in DOMAIN cargador.historia :
         cargador.historia[b].fin \in {"rollback", "abierta"}
           => \/ Len(cargador.historia)
                  = NumeroDeLotes(DatosDeCarga(cargador.n))
              \/ \E d \in DOMAIN cargador.historia :
                   /\ d > b
                   /\ cargador.historia[d].fin \in {"sin iniciar", "abierta"}

\* C25: when the transaction of a batch errors (its commit throws), that
\* batch is rolled back, none of its records is counted and none of its rows
\* is in the table, the rows of the batches committed before stay, and every
\* batch after it is still attempted
LoteFallidoNoDetiene ==
  [][LoteRevertidoEntero]_vars /\ []LotesSiguientesIntentados

\* the records the uploaded file of the last request gave the loader
DatosDelUltimo == normalizarNombresColumnas(ultimo.datos)

\* the fields of a record that name a column and whose value is not null
\* once sanitized for the type of the column
CamposNoNulos(columnas, registro) ==
  SelectSeq(registro,
            LAMBDA e : /\ TieneColumna(columnas, e.c)
                       /\ NoNulo(sanitizarValorSegunTipo(
                                   e.v, ColumnaDe(columnas, e.c).tipo)))

\* C26: the loader inserts a record with exactly its fields that name a
\* column and are not null once sanitized, and a record with no such field
\* gives no insert and no row: after an import in which the store rejected
\* nothing, the table has one row for each record with such a field, with
\* the sanitized values in its columns
InsertaSoloNoNulos ==
  (ultimo.op = "create" /\ ultimo.estado = "ok" /\ ultimo.fallidos = 0)
    => Len(tablas[ultimo.tabla].filas)
         = Cardinality({r \in DOMAIN DatosDelUltimo :
                          CamposNoNulos(EstructuraDelUltimo,
                                        DatosDelUltimo[r]) # <<>>})


\* the non-null values of a column of the records, in record order
ValoresNoNulos(datos, col) ==
  SelectSeq([r \in DOMAIN datos |-> Leer(datos[r], col)], NoNulo)

\* a text that, without its characters other than digits, '.' and '-', is
\* the literal of a number
SeLeeComoNumero(v) ==
  /\ v.k = "string"
  /\ LimpiarNumero(v.s) # <<>>
  /\ EsNumber(LimpiarNumero(v.s))

\* the type of a column whose first non-null value is a text: text with a
\* value of a letter or of a character outside [0-9.,\-\s] or with a value
\* that is no number, else decimal with a decimal point and int without
TipoDesdeTextos(v) ==
  IF \E i \in DOMAIN v :
       v[i].k = "string"
         /\ \E j \in DOMAIN v[i].s : EsCaracterNoNumerico(v[i].s[j])
    THEN "text"
  ELSE IF \E i \in DOMAIN v : ~SeLeeComoNumero(v[i]) THEN "text"
  ELSE IF \E i \in DOMAIN v : Incluye(LimpiarNumero(v[i].s), ".")
    THEN "decimal" ELSE "int"

\* C27: the structure recorded for an import has exactly one nullable
\* definition for each key of any of its records; a column without a non-null
\* value is text, and a column whose first non-null value is a text is text
\* when a value has a letter or a character outside [0-9.,\-\s] or is no
\* number once cleaned, else decimal when a cleaned value has a decimal point
\* and int when none has
InferenciaDocumentada ==
  (ultimo.op = "create" /\ ultimo.id \in DOMAIN importaciones)
    => LET e == EstructuraDelUltimo
           d == DatosDelUltimo
       IN  /\ {e[c].nombre : c \in DOMAIN e}
                = UNION {Rango(Claves(d[r])) : r \in DOMAIN d}
           /\ \A c1 \in DOMAIN e : \A c2 \in DOMAIN e :
                e[c1].nombre = e[c2].nombre => c1 = c2
           /\ \A c \in DOMAIN e :
                LET v == ValoresNoNulos(d, e[c].nombre)
                IN  /\ e[c].esNullable
                    /\ v = <<>> => e[c].tipo = "text"
                    /\ (v # <<>> /\ v[1].k = "string")
                         => e[c].tipo = TipoDesdeTextos(v)


\* occurrences of a character in the first LargoFragmento characters
Apariciones(texto, sep) ==
  Cardinality({p \in DOMAIN Slice(texto, LargoFragmento) : texto[p] = sep})

\* the candidate of most occurrences, the earliest of them on a tie, and ','
\* when no candidate occurs
SeparadorMasFrecuente(texto) ==
  IF \A k \in DOMAIN separadores : Apariciones(texto, separadores[k]) = 0
    THEN ","
  ELSE separadores[
         CHOOSE k \in DOMAIN separadores :
           /\ \A j \in DOMAIN separadores :
                Apariciones(texto, separadores[j])
                  <= Apariciones(texto, separadores[k])
           /\ \A j \in 1..(k - 1) :
                Apariciones(texto, separadores[j])
                  < Apariciones(texto, separadores[k])]

\* C28: the separator detected for a file is the candidate among ',', ';',
\* tab and '|' of most occurrences in the first 1000 characters of the file,
\* the earliest on a tie, and ',' when none occurs; it is ',' when the file
\* cannot be read
SeparadorDetectado ==
  lector.fase = "devuelto"
    => lector.separador =
         IF lector.legible THEN SeparadorMasFrecuente(lector.texto)
         ELSE ","


\* the active imports of a ledger
Activas(imp) == {imp[i] : i \in {j \in DOMAIN imp : imp[j].isActive}}

\* the live tables of a store, each with its columns and rows
TablasVivas(tab) ==
  {[nombre |-> t, columnas |-> tab[t].columnas, filas |-> tab[t].filas] :
     t \in {u \in DOMAIN tab : tab[u].existe}}

\* every active import of the ledger has a live table
ActivasConTabla(imp, tab) ==
  \A r \in Activas(imp) : tab[r.nombreTabla].existe

\* a call of create that failed changed neither the active imports, nor the
\* live tables and their rows, nor the files of the imports that were active
CreateFallidoSinEfecto ==
  (subidas' = subidas + 1 /\ ultimo'.op = "create" /\ ultimo'.estado # "ok")
    => /\ Activas(importaciones') = Activas(importaciones)
       /\ TablasVivas(tablas') = TablasVivas(tablas)
       /\ {r.rutaArchivo : r \in Activas(importaciones)} \cap archivos
            \subseteq archivos'
       /\ ActivasConTabla(importaciones, tablas)
            => ActivasConTabla(importaciones', tablas')

\* C29: create is atomic with respect to failure: when it fails at any step
\* the active imports, the live tables with their rows and the staged files
\* of earlier imports are as before the call, so a failed re-import leaves
\* the previous import of the pair intact and no active import is left
\* without a live table
CreateAtomico == [][CreateFallidoSinEfecto]_vars


\* a number that is not whole
EsNumeroConDecimales(v) == v.k = "number" /\ TieneDecimales(v.n)

\* the records the loader receives for the last import
DatosParaCargar == sanitizarValoresLargos(DatosDelUltimo, EstructuraDelUltimo)

\* C30: a column inferred int has no number with decimals in any record, so
\* the re-scan before the load, given the definitions inferred from the same
\* records, upgrades no column to decimal, and the types the load sanitizes
\* with are the types the table was created with
SinAscensoEnLaCarga ==
  (ultimo.op = "create" /\ ultimo.id \in DOMAIN importaciones)
    => /\ \A c \in DOMAIN EstructuraDelUltimo :
            EstructuraDelUltimo[c].tipo = "int"
              => \A r \in DOMAIN DatosDelUltimo :
                   ~EsNumeroConDecimales(
                      Leer(DatosDelUltimo[r], EstructuraDelUltimo[c].nombre))
       /\ columnasDeCarga(EstructuraDelUltimo, DatosParaCargar)
            = EstructuraDelUltimo
       /\ tablas[ultimo.tabla].existe
            => \A c \in DOMAIN EstructuraDelUltimo :
                 tablas[ultimo.tabla].columnas[c].tipoSQL
                   = mapearTipoAPostgres(
                       columnasDeCarga(EstructuraDelUltimo,
                                       DatosParaCargar)[c].tipo)

\* an import was loaded whose records have a number with decimals next to a
\* column inferred int
CargaConEnterosYDecimales ==
  /\ ultimo.op = "create"
  /\ ultimo.estado = "ok"
  /\ \E c \in DOMAIN EstructuraDelUltimo : EstructuraDelUltimo[c].tipo = "int"
  /\ \E r \in DOMAIN DatosDelUltimo : \E i \in DOMAIN DatosDelUltimo[r] :
       EsNumeroConDecimales(DatosDelUltimo[r][i].v)

====
